---------------------------- MODULE Spec2Model ----------------------------
(***************************************************************************)
(* Fog of war of vtt_rust: the grid of quadtrees (fog_of_war.rs,           *)
(* quadtreenode.rs, fowrectangle.rs), the observer checks of               *)
(* VTT::fow_change (vtt.rs) and the intersection search (helper.rs).       *)
(*                                                                         *)
(* Grid coordinates (f64 in the source) are fixed-point numbers in units   *)
(* of 1/CoordDen of a grid square; pixel coordinates are integers.  A      *)
(* polygon is an axis-aligned rectangle with integer pixel corners, for    *)
(* which the area ratio of FoWRectangle::in_polygon is exact integer       *)
(* arithmetic.                                                             *)
(***************************************************************************)
EXTENDS Integers, Sequences, FiniteSets, TLC

VARIABLES
    resolution,       \* Resolution {map_origin, map_size, pixels_per_grid}
    squares,          \* FogOfWar.squares : Seq(FowNode)
    rectangle_count,  \* FogOfWar.rectangle_count (AtomicUsize)
    call,             \* the last call made on the FogOfWar and what it saw
    rt,               \* monitor of update(HIDE, P) followed by update(SHOW, P)
    rect_arg,         \* the rectangle handed to FoWRectangle::split
    split_result,     \* what split returned for rect_arg
    find_arg,         \* the ray, walls and skip handed to find_intersection
    find_result,      \* what find_intersection returned for find_arg
    line_of_sight,    \* VTT.line_of_sight : Seq(Seq(Coordinate))
    objects_line_of_sight,  \* VTT.objects_line_of_sight : Option
    portals,          \* VTT.portals : Seq(Portal)
    fow_call,         \* the last fow_change since a door moved and its result
    door_log,         \* per portal: what open_door / close_door last did to it
    workers,          \* update in progress: per cell, the position of its closure
    sequential,       \* what the update in progress gives cell by cell in index order
    in_polygon_arg,   \* the rectangle and polygon handed to FoWRectangle::in_polygon
    in_polygon_result,  \* what in_polygon returned for in_polygon_arg
    los_arg,          \* the map, observer and walls handed to calculate_direct_los
    los_result,       \* the ring calculate_direct_los built for los_arg
    rectangles,       \* what the last get_rectangles() returned
    door_call,        \* the last open_door / close_door: arguments, portals before, result
    merge_arg,        \* the arguments of a QuadtreeNode method called on its own
    merge_result,     \* self after the call
    angle_arg,        \* the vector and the candidates handed to smallest_angle
    angle_result      \* what smallest_angle returned for angle_arg

fogVars == <<resolution, squares, rectangle_count, call>>
splitVars == <<rect_arg, split_result>>
findVars == <<find_arg, find_result>>
vttVars == <<line_of_sight, objects_line_of_sight, portals, fow_call, door_log>>
parVars == <<workers, sequential>>
classifyVars == <<in_polygon_arg, in_polygon_result>>
losVars == <<los_arg, los_result>>
mergeVars == <<merge_arg, merge_result>>
angleVars == <<angle_arg, angle_result>>
vars == <<fogVars, rt, splitVars, findVars, vttVars, parVars, classifyVars, losVars,
          rectangles, door_call, mergeVars, angleVars>>

-----------------------------------------------------------------------------
(* Bounds of the model *)

\* largest map width and height in grid squares
MaxSize == 2
\* width of the modelled usize ring: the counter wraps at 2^UsizeBits
UsizeBits == 4

\* largest pixels_per_grid
MaxPpg == 7
\* largest number of cells times pixels_per_grid
MaxCellPixels == 7
\* distance between the pixel lines that polygon corners lie on
PolyStep == 2

\* largest pixels_per_grid of the monitored round trips
RtMaxPpg == 5

\* largest bottomright - topleft of the rectangles split is tried on
MaxSplitEdge == 8

\* largest number of wall segments handed to find_intersection
MaxWalls == 2
\* largest length of the ray handed to find_intersection, in 1/DistDen
MaxDist == 5

\* largest distance of the counter from 0 at which fow_change is still called
MaxDrift == 3
\* pixels_per_grid of the map fow_change is called on
VttPpg == 2

\* f64 grid coordinates are held in tenths of a grid square
CoordDen == 10

\* const MIN_SQUARE_SIZE: i32 = 3
MIN_SQUARE_SIZE == 3

UsizeMod == 2 ^ UsizeBits

\* const PRECISION: f64 = 10_000.0
PRECISION == 10000
\* f64 distances along a ray are held in units of 1/DistDen, half a step of
\* the i64 keys find_intersection truncates them to
DistDen == 2 * PRECISION

-----------------------------------------------------------------------------
(* Small helpers *)

Min(a, b) == IF a < b THEN a ELSE b
Max(a, b) == IF a > b THEN a ELSE b

Range(s) == {s[i] : i \in DOMAIN s}

Abs(n) == IF n < 0 THEN -n ELSE n

-----------------------------------------------------------------------------
(* vtt.rs: PixelCoordinate *)

\* PixelCoordinate::new
PixelCoordinate_new(x, y) == [x |-> x, y |-> y]

\* PixelCoordinate::from: (coordinate * pixels_per_grid) as i32, which
\* truncates toward zero (coordinates are >= 0 here)
PixelCoordinate_from(coordinate, pixels_per_grid) ==
    [x |-> (coordinate.x * pixels_per_grid) \div CoordDen,
     y |-> (coordinate.y * pixels_per_grid) \div CoordDen]

-----------------------------------------------------------------------------
(* fowrectangle.rs: FoWRectangle *)

FoWRectangle_new(topleft, bottomright) ==
    [topleft |-> topleft, bottomright |-> bottomright]

\* Area of the intersection of the geo::Rect spanned by topleft/bottomright
\* with the polygon (an axis-aligned rectangle [x0,x1] x [y0,y1])
IntersectionArea(rect, polygon) ==
    LET w == Min(rect.bottomright.x, polygon.x1) - Max(rect.topleft.x, polygon.x0)
        h == Min(rect.bottomright.y, polygon.y1) - Max(rect.topleft.y, polygon.y0)
    IN  IF w > 0 /\ h > 0 THEN w * h ELSE 0

RectangleArea(rect) ==
    (rect.bottomright.x - rect.topleft.x) * (rect.bottomright.y - rect.topleft.y)

\* in_polygon with the two thresholds themselves counted as INSIDE and OUTSIDE
in_polygon_inclusive(rect, polygon) ==
    LET exterior_intersection == IntersectionArea(rect, polygon)
        rectangle_area == RectangleArea(rect)
    IN  IF rectangle_area # 0 /\ 10000 * exterior_intersection >= 9999 * rectangle_area
        THEN "INSIDE"
        ELSE IF rectangle_area # 0 /\ 10000 * exterior_intersection <= rectangle_area
        THEN "OUTSIDE"
        ELSE "PARTIAL"

\* FoWRectangle::in_polygon: ratio > 0.9999 => INSIDE, ratio < 0.0001 =>
\* OUTSIDE, else PARTIAL.  A rectangle of area 0 gives 0/0 = NaN, for which
\* both comparisons are false: PARTIAL.
in_polygon(rect, polygon) ==
    LET exterior_intersection == IntersectionArea(rect, polygon)
        rectangle_area == RectangleArea(rect)
    IN  IF rectangle_area # 0 /\ 10000 * exterior_intersection > 9999 * rectangle_area
        THEN "INSIDE"
        ELSE IF rectangle_area # 0 /\ 10000 * exterior_intersection < rectangle_area
        THEN "OUTSIDE"
        ELSE "PARTIAL"

\* split with the right and bottom children starting on the last column and
\* row of the left and top children
split_overlapping(self) ==
    LET width == self.bottomright.x - self.topleft.x
        height == self.bottomright.y - self.topleft.y
    IN  IF width < MIN_SQUARE_SIZE \/ height < MIN_SQUARE_SIZE
        THEN [ok |-> FALSE, rectangle |-> self, children |-> <<>>]
        ELSE [ok |-> TRUE, rectangle |-> self, children |-> <<
                \* topleft_child
                FoWRectangle_new(self.topleft,
                    PixelCoordinate_new(self.topleft.x + (width \div 2),
                                        self.topleft.y + (height \div 2))),
                \* topright_child
                FoWRectangle_new(
                    PixelCoordinate_new(self.topleft.x + (width \div 2), self.topleft.y),
                    PixelCoordinate_new(self.bottomright.x, self.topleft.y + (height \div 2))),
                \* bottomleft_child
                FoWRectangle_new(
                    PixelCoordinate_new(self.topleft.x, self.topleft.y + (height \div 2)),
                    PixelCoordinate_new(self.topleft.x + (width \div 2), self.bottomright.y)),
                \* bottomright_child
                FoWRectangle_new(
                    PixelCoordinate_new(self.topleft.x + (width \div 2),
                                        self.topleft.y + (height \div 2)),
                    self.bottomright) >>]

\* split refusing edges below 2 only (the threshold of the 4-corner rectangle
\* of quadtreenode.rs)
split_minimum_2(self) ==
    LET width == self.bottomright.x - self.topleft.x
        height == self.bottomright.y - self.topleft.y
    IN  IF width < 2 \/ height < 2
        THEN [ok |-> FALSE, rectangle |-> self, children |-> <<>>]
        ELSE [ok |-> TRUE, rectangle |-> self, children |-> <<
                \* topleft_child
                FoWRectangle_new(self.topleft,
                    PixelCoordinate_new(self.topleft.x + (width \div 2),
                                        self.topleft.y + (height \div 2))),
                \* topright_child
                FoWRectangle_new(
                    PixelCoordinate_new(self.topleft.x + (width \div 2) + 1, self.topleft.y),
                    PixelCoordinate_new(self.bottomright.x, self.topleft.y + (height \div 2))),
                \* bottomleft_child
                FoWRectangle_new(
                    PixelCoordinate_new(self.topleft.x, self.topleft.y + (height \div 2) + 1),
                    PixelCoordinate_new(self.topleft.x + (width \div 2), self.bottomright.y)),
                \* bottomright_child
                FoWRectangle_new(
                    PixelCoordinate_new(self.topleft.x + (width \div 2) + 1,
                                        self.topleft.y + (height \div 2) + 1),
                    self.bottomright) >>]

\* FoWRectangle::split
split(self) ==
    LET width == self.bottomright.x - self.topleft.x
        height == self.bottomright.y - self.topleft.y
    IN  IF width < MIN_SQUARE_SIZE \/ height < MIN_SQUARE_SIZE
        THEN [ok |-> FALSE, rectangle |-> self, children |-> <<>>]
        ELSE [ok |-> TRUE, rectangle |-> self, children |-> <<
                \* topleft_child
                FoWRectangle_new(self.topleft,
                    PixelCoordinate_new(self.topleft.x + (width \div 2),
                                        self.topleft.y + (height \div 2))),
                \* topright_child
                FoWRectangle_new(
                    PixelCoordinate_new(self.topleft.x + (width \div 2) + 1, self.topleft.y),
                    PixelCoordinate_new(self.bottomright.x, self.topleft.y + (height \div 2))),
                \* bottomleft_child
                FoWRectangle_new(
                    PixelCoordinate_new(self.topleft.x, self.topleft.y + (height \div 2) + 1),
                    PixelCoordinate_new(self.topleft.x + (width \div 2), self.bottomright.y)),
                \* bottomright_child
                FoWRectangle_new(
                    PixelCoordinate_new(self.topleft.x + (width \div 2) + 1,
                                        self.topleft.y + (height \div 2) + 1),
                    self.bottomright) >>]

-----------------------------------------------------------------------------
(* quadtreenode.rs: QuadtreeNode *)

Leaf(bounds, visible) == [kind |-> "Leaf", bounds |-> bounds, visible |-> visible]
Internal(tl, tr, bl, br) ==
    [kind |-> "Internal", topleft |-> tl, topright |-> tr,
     bottomleft |-> bl, bottomright |-> br]

\* QuadtreeNode::from_bounds
from_bounds(bounds, visible) == Leaf(bounds, visible)

\* QuadtreeNode::to_internal: the four children are created with
\* visible = true whatever the leaf's flag was
to_internal(self) ==
    IF self.kind = "Internal" THEN [ok |-> TRUE, node |-> self]
    ELSE LET children == split(self.bounds)
         IN  IF ~children.ok THEN [ok |-> FALSE, node |-> self]
             ELSE [ok |-> TRUE,
                   node |-> Internal(from_bounds(children.children[1], TRUE),
                                     from_bounds(children.children[2], TRUE),
                                     from_bounds(children.children[3], TRUE),
                                     from_bounds(children.children[4], TRUE))]

\* create_tree that leaves a leaf outside the polygon as it is
RECURSIVE create_tree_outside_kept(_, _, _)
create_tree_outside_kept(self, make_visible, polygon) ==
    IF self.kind = "Leaf"
    THEN LET c == in_polygon(self.bounds, polygon)
         IN  IF c = "INSIDE" THEN [self EXCEPT !.visible = make_visible]
             ELSE IF c = "OUTSIDE" THEN self
             ELSE LET r == to_internal(self)
                  IN  IF ~r.ok THEN self
                      ELSE create_tree_outside_kept(r.node, make_visible, polygon)
    ELSE Internal(create_tree_outside_kept(self.topleft, make_visible, polygon),
                  create_tree_outside_kept(self.topright, make_visible, polygon),
                  create_tree_outside_kept(self.bottomleft, make_visible, polygon),
                  create_tree_outside_kept(self.bottomright, make_visible, polygon))

\* QuadtreeNode::create_tree, with the classification of the rectangle type
\* the grid uses (FoWRectangle::in_polygon)
RECURSIVE create_tree(_, _, _)
create_tree(self, make_visible, polygon) ==
    IF self.kind = "Leaf"
    THEN LET c == in_polygon(self.bounds, polygon)
         IN  IF c = "INSIDE" THEN [self EXCEPT !.visible = make_visible]
             ELSE IF c = "OUTSIDE" THEN [self EXCEPT !.visible = ~make_visible]
             ELSE LET r == to_internal(self)
                  IN  IF ~r.ok THEN self
                      ELSE create_tree(r.node, make_visible, polygon)
    ELSE Internal(create_tree(self.topleft, make_visible, polygon),
                  create_tree(self.topright, make_visible, polygon),
                  create_tree(self.bottomleft, make_visible, polygon),
                  create_tree(self.bottomright, make_visible, polygon))

\* QuadtreeNode::get_area (get_topleft_point .. get_bottomright_point)
RECURSIVE get_topleft_point(_)
get_topleft_point(self) ==
    IF self.kind = "Leaf" THEN self.bounds.topleft ELSE get_topleft_point(self.topleft)

RECURSIVE get_bottomright_point(_)
get_bottomright_point(self) ==
    IF self.kind = "Leaf" THEN self.bounds.bottomright
    ELSE get_bottomright_point(self.bottomright)

get_area(self) == FoWRectangle_new(get_topleft_point(self), get_bottomright_point(self))

\* hide that leaves a visible Leaf whole when other is Internal
RECURSIVE QuadtreeNode_hide_leaf_whole(_, _)
QuadtreeNode_hide_leaf_whole(self, other) ==
    IF self.kind = "Leaf" /\ other.kind = "Leaf"
    THEN IF self.visible /\ ~other.visible THEN [self EXCEPT !.visible = FALSE] ELSE self
    ELSE IF self.kind = "Leaf" /\ other.kind = "Internal"
    THEN self
    ELSE IF self.kind = "Internal" /\ other.kind = "Leaf"
    THEN IF ~other.visible THEN Leaf(get_area(self), FALSE) ELSE self
    ELSE Internal(QuadtreeNode_hide_leaf_whole(self.topleft, other.topleft),
                  QuadtreeNode_hide_leaf_whole(self.topright, other.topright),
                  QuadtreeNode_hide_leaf_whole(self.bottomleft, other.bottomleft),
                  QuadtreeNode_hide_leaf_whole(self.bottomright, other.bottomright))

\* QuadtreeNode::hide: add the fog of war represented by other to self
RECURSIVE QuadtreeNode_hide(_, _)
QuadtreeNode_hide(self, other) ==
    IF self.kind = "Leaf" /\ other.kind = "Leaf"
    THEN IF self.visible /\ ~other.visible THEN [self EXCEPT !.visible = FALSE] ELSE self
    ELSE IF self.kind = "Leaf" /\ other.kind = "Internal"
    THEN IF ~self.visible THEN self
         ELSE QuadtreeNode_hide(to_internal(self).node, other)
    ELSE IF self.kind = "Internal" /\ other.kind = "Leaf"
    THEN IF ~other.visible THEN Leaf(get_area(self), FALSE) ELSE self
    ELSE Internal(QuadtreeNode_hide(self.topleft, other.topleft),
                  QuadtreeNode_hide(self.topright, other.topright),
                  QuadtreeNode_hide(self.bottomleft, other.bottomleft),
                  QuadtreeNode_hide(self.bottomright, other.bottomright))

\* QuadtreeNode::show: remove the fog of war represented by other from self
RECURSIVE QuadtreeNode_show(_, _)
QuadtreeNode_show(self, other) ==
    IF self.kind = "Leaf" /\ other.kind = "Leaf"
    THEN IF ~self.visible /\ other.visible THEN [self EXCEPT !.visible = TRUE] ELSE self
    ELSE IF self.kind = "Leaf" /\ other.kind = "Internal"
    THEN IF self.visible THEN self
         ELSE QuadtreeNode_show(to_internal(self).node, other)
    ELSE IF self.kind = "Internal" /\ other.kind = "Leaf"
    THEN IF other.visible THEN Leaf(get_area(self), TRUE) ELSE self
    ELSE Internal(QuadtreeNode_show(self.topleft, other.topleft),
                  QuadtreeNode_show(self.topright, other.topright),
                  QuadtreeNode_show(self.bottomleft, other.bottomleft),
                  QuadtreeNode_show(self.bottomright, other.bottomright))

\* populate_rectangle_vec pushing the bounds of every leaf
RECURSIVE populate_rectangle_vec_every_leaf(_)
populate_rectangle_vec_every_leaf(self) ==
    IF self.kind = "Leaf" THEN <<self.bounds>>
    ELSE populate_rectangle_vec_every_leaf(self.topleft)
         \o populate_rectangle_vec_every_leaf(self.topright)
         \o populate_rectangle_vec_every_leaf(self.bottomleft)
         \o populate_rectangle_vec_every_leaf(self.bottomright)

\* QuadtreeNode::populate_rectangle_vec: the bounds of the leaves with
\* visible = false, in the order topleft, topright, bottomleft, bottomright
RECURSIVE populate_rectangle_vec(_)
populate_rectangle_vec(self) ==
    IF self.kind = "Leaf"
    THEN IF ~self.visible THEN <<self.bounds>> ELSE <<>>
    ELSE populate_rectangle_vec(self.topleft) \o populate_rectangle_vec(self.topright)
         \o populate_rectangle_vec(self.bottomleft) \o populate_rectangle_vec(self.bottomright)

\* QuadtreeNode::hidden_children (called by FowNode::partial): the number of
\* leaves with visible = false
RECURSIVE hidden_children(_)
hidden_children(self) ==
    IF self.kind = "Leaf"
    THEN IF ~self.visible THEN 1 ELSE 0
    ELSE hidden_children(self.topleft) + hidden_children(self.topright)
         + hidden_children(self.bottomleft) + hidden_children(self.bottomright)

\* QuadtreeNode::clean (called by FowNode::partial): bottom-up, an Internal
\* node whose four children are leaves of one visibility becomes one Leaf
RECURSIVE clean_node(_)
clean_node(self) ==
    IF self.kind = "Leaf" THEN self
    ELSE LET tl == clean_node(self.topleft)
             tr == clean_node(self.topright)
             bl == clean_node(self.bottomleft)
             br == clean_node(self.bottomright)
             n  == Internal(tl, tr, bl, br)
         IN  IF /\ tl.kind = "Leaf" /\ tr.kind = "Leaf"
                /\ bl.kind = "Leaf" /\ br.kind = "Leaf"
                /\ tl.visible = tr.visible /\ tr.visible = bl.visible
                /\ bl.visible = br.visible
             THEN Leaf(get_area(n), tl.visible)
             ELSE n


-----------------------------------------------------------------------------
(* fog_of_war.rs: FowNode *)

NoNode == [kind |-> "None"]

\* AtomicUsize::fetch_add / fetch_sub wrap around on overflow
fetch_add(counter, n) == (counter + n) % UsizeMod

\* a subtraction that stops at 0 instead of wrapping around
fetch_sub_saturating(counter, n) == Max(counter - n, 0)

fetch_sub(counter, n) == (counter - n) % UsizeMod

\* FowNode::new
FowNode_new(rect) == [state |-> "Shown", node |-> NoNode, rect |-> rect]

\* FowNode::hide
FowNode_hide(self, rect_counter) ==
    IF self.state = "Hidden"
    THEN [cell |-> self, counter |-> rect_counter]
    ELSE [cell |-> [self EXCEPT !.state = "Hidden", !.node = NoNode],
          counter |-> fetch_sub(rect_counter, 1)]

\* FowNode::show
FowNode_show(self, rect_counter) ==
    IF self.state = "Shown"
    THEN [cell |-> self, counter |-> rect_counter]
    ELSE [cell |-> [self EXCEPT !.state = "Shown", !.node = NoNode],
          counter |-> fetch_sub(rect_counter, 1)]

\* QuadtreeNode::clean as FowNode::partial calls it, with the shared counter:
\* the counter follows the number of hidden leaves the coalescing removes
clean(node, rect_counter) ==
    LET cleaned == clean_node(node)
    IN  [node |-> cleaned,
         counter |-> fetch_sub(rect_counter,
                               hidden_children(node) - hidden_children(cleaned))]

\* QuadtreeNode::hide / show as FowNode::partial calls them, with the shared
\* counter: the counter follows the change in the number of hidden leaves
merge(node, other, make_visible, rect_counter) ==
    LET merged == IF make_visible THEN QuadtreeNode_show(node, other)
                  ELSE QuadtreeNode_hide(node, other)
    IN  [node |-> merged,
         counter |-> fetch_add(rect_counter,
                               hidden_children(merged) - hidden_children(node))]

\* partial that installs the grown tree as it is, without clean
FowNode_partial_uncleaned(self, make_visible, polygon, rect_counter) ==
    LET quad_tree == create_tree(from_bounds(self.rect, ~make_visible), make_visible, polygon)
        count == hidden_children(quad_tree)
    IN  IF self.state = "Partial"
        THEN LET m == merge(self.node, quad_tree, make_visible, rect_counter)
             IN  [cell |-> [self EXCEPT !.node = m.node], counter |-> m.counter]
        ELSE IF self.state = "Hidden"
        THEN [cell |-> [self EXCEPT !.state = "Partial", !.node = quad_tree],
              counter |-> fetch_add(rect_counter, (count - 1) % UsizeMod)]
        ELSE [cell |-> [self EXCEPT !.state = "Partial", !.node = quad_tree],
              counter |-> fetch_add(rect_counter, count)]

\* FowNode::partial
FowNode_partial(self, make_visible, polygon, rect_counter) ==
    LET quad_tree == create_tree(from_bounds(self.rect, ~make_visible), make_visible, polygon)
        count == hidden_children(quad_tree)
    IN  IF self.state = "Partial"
        THEN LET m == merge(self.node, quad_tree, make_visible, rect_counter)
                 c == clean(m.node, m.counter)
             IN  [cell |-> [self EXCEPT !.node = c.node], counter |-> c.counter]
        ELSE IF self.state = "Hidden"
        THEN LET c == clean(quad_tree, fetch_add(rect_counter, (count - 1) % UsizeMod))
             IN  [cell |-> [self EXCEPT !.state = "Partial", !.node = c.node],
                  counter |-> c.counter]
        ELSE LET c == clean(quad_tree, fetch_add(rect_counter, count))
             IN  [cell |-> [self EXCEPT !.state = "Partial", !.node = c.node],
                  counter |-> c.counter]

\* update that calls partial on a cell classified PARTIAL whatever its state
FowNode_update_any_state(self, polygon, make_visible, rect_counter) ==
    LET c == in_polygon(self.rect, polygon)
    IN  IF c = "INSIDE"
        THEN IF make_visible THEN FowNode_show(self, rect_counter)
             ELSE FowNode_hide(self, rect_counter)
        ELSE IF c = "OUTSIDE"
        THEN [cell |-> self, counter |-> rect_counter]
        ELSE FowNode_partial(self, make_visible, polygon, rect_counter)

\* FowNode::update
FowNode_update(self, polygon, make_visible, rect_counter) ==
    LET c == in_polygon(self.rect, polygon)
    IN  IF c = "INSIDE"
        THEN IF make_visible THEN FowNode_show(self, rect_counter)
             ELSE FowNode_hide(self, rect_counter)
        ELSE IF c = "OUTSIDE"
        THEN [cell |-> self, counter |-> rect_counter]
        ELSE IF \/ (self.state = "Shown" /\ ~make_visible)
                \/ (self.state = "Hidden" /\ make_visible)
        THEN FowNode_partial(self, make_visible, polygon, rect_counter)
        ELSE [cell |-> self, counter |-> rect_counter]

\* The calls a closure of update makes on the shared counter, in the order
\* it makes them; every one is a single atomic read-modify-write
AtomicOp(op, n) == [op |-> op, n |-> n]

atomic(op, counter) ==
    IF op.op = "fetch_add" THEN fetch_add(counter, op.n) ELSE fetch_sub(counter, op.n)

\* the counter calls of FowNode::partial
FowNode_partial_ops(self, make_visible, polygon) ==
    LET quad_tree == create_tree(from_bounds(self.rect, ~make_visible), make_visible, polygon)
        count == hidden_children(quad_tree)
        merged == merge(self.node, quad_tree, make_visible, 0).node
    IN  IF self.state = "Partial"
        THEN <<AtomicOp("fetch_add", hidden_children(merged) - hidden_children(self.node)),
               AtomicOp("fetch_sub", hidden_children(merged) - hidden_children(clean_node(merged)))>>
        ELSE IF self.state = "Hidden"
        THEN <<AtomicOp("fetch_add", (count - 1) % UsizeMod),
               AtomicOp("fetch_sub", count - hidden_children(clean_node(quad_tree)))>>
        ELSE <<AtomicOp("fetch_add", count),
               AtomicOp("fetch_sub", count - hidden_children(clean_node(quad_tree)))>>

\* the counter calls of FowNode::update
FowNode_update_ops(self, polygon, make_visible) ==
    LET c == in_polygon(self.rect, polygon)
    IN  IF c = "INSIDE"
        THEN IF make_visible
             THEN IF self.state = "Shown" THEN <<>> ELSE <<AtomicOp("fetch_sub", 1)>>
             ELSE IF self.state = "Hidden" THEN <<>> ELSE <<AtomicOp("fetch_sub", 1)>>
        ELSE IF c = "OUTSIDE" THEN <<>>
        ELSE IF \/ (self.state = "Shown" /\ ~make_visible)
                \/ (self.state = "Hidden" /\ make_visible)
        THEN FowNode_partial_ops(self, make_visible, polygon)
        ELSE <<>>

\* FowNode::rectangles
FowNode_rectangles(self) ==
    IF self.state = "Partial" THEN populate_rectangle_vec(self.node)
    ELSE IF self.state = "Hidden" THEN <<self.rect>>
    ELSE <<>>

-----------------------------------------------------------------------------
(* fog_of_war.rs: FogOfWar *)

\* The inner and outer while loops of FogOfWar::new
\* the inner loop stepping by pixels_per_grid - 1: neighbours share a pixel column
RECURSIVE NewRow_overlapping(_, _, _, _)
NewRow_overlapping(x, y, pixel_size, ppg) ==
    IF x < pixel_size.x
    THEN <<FowNode_new(FoWRectangle_new(PixelCoordinate_new(x, y),
                PixelCoordinate_new(x + ppg - 1, y + ppg - 1)))>>
         \o NewRow_overlapping(x + Max(ppg - 1, 1), y, pixel_size, ppg)
    ELSE <<>>

RECURSIVE NewRow(_, _, _, _)
NewRow(x, y, pixel_size, ppg) ==
    IF x < pixel_size.x
    THEN <<FowNode_new(FoWRectangle_new(PixelCoordinate_new(x, y),
                PixelCoordinate_new(x + ppg - 1, y + ppg - 1)))>>
         \o NewRow(x + ppg - 1 + 1, y, pixel_size, ppg)
    ELSE <<>>

RECURSIVE NewRows(_, _, _, _)
NewRows(y, pixel_origin, pixel_size, ppg) ==
    IF y < pixel_size.y
    THEN NewRow(pixel_origin.x, y, pixel_size, ppg)
         \o NewRows(y + ppg, pixel_origin, pixel_size, ppg)
    ELSE <<>>

\* FogOfWar::new
FogOfWar_new(res) ==
    LET pixel_origin == PixelCoordinate_from(res.map_origin, res.pixels_per_grid)
        pixel_size == PixelCoordinate_from(res.map_size, res.pixels_per_grid)
    IN  [squares |-> NewRows(pixel_origin.y, pixel_origin, pixel_size, res.pixels_per_grid),
         rectangle_count |-> 0]

\* squares.iter_mut().for_each(|f| f.hide(rectangle_count)): the cells in
\* index order, every one working on the shared counter
RECURSIVE HideEach(_, _, _)
HideEach(cells, i, counter) ==
    IF i > Len(cells) THEN [squares |-> cells, rectangle_count |-> counter]
    ELSE LET r == FowNode_hide(cells[i], counter)
         IN  HideEach([cells EXCEPT ![i] = r.cell], i + 1, r.counter)

\* squares.iter_mut().for_each(|f| f.show(rectangle_count))
RECURSIVE ShowEach(_, _, _)
ShowEach(cells, i, counter) ==
    IF i > Len(cells) THEN [squares |-> cells, rectangle_count |-> counter]
    ELSE LET r == FowNode_show(cells[i], counter)
         IN  ShowEach([cells EXCEPT ![i] = r.cell], i + 1, r.counter)

\* squares.par_iter_mut().for_each(|f| f.update(polygon, make_visible, count))
RECURSIVE UpdateEach(_, _, _, _, _)
UpdateEach(cells, i, counter, polygon, make_visible) ==
    IF i > Len(cells) THEN [squares |-> cells, rectangle_count |-> counter]
    ELSE LET r == FowNode_update(cells[i], polygon, make_visible, counter)
         IN  UpdateEach([cells EXCEPT ![i] = r.cell], i + 1, r.counter,
                        polygon, make_visible)

\* hide_all without the final swap(amount)
hide_all_without_swap(cells, counter) == HideEach(cells, 1, counter)

\* FogOfWar::hide_all
hide_all(cells, counter) ==
    LET amount == Len(cells)
        done == HideEach(cells, 1, counter)
    IN  [squares |-> done.squares, rectangle_count |-> amount % UsizeMod]

\* show_all without the final swap(0)
show_all_without_swap(cells, counter) == ShowEach(cells, 1, counter)

\* FogOfWar::show_all
show_all(cells, counter) ==
    LET done == ShowEach(cells, 1, counter)
    IN  [squares |-> done.squares, rectangle_count |-> 0]

\* FogOfWar::update
update(cells, counter, operation, polygon) ==
    LET make_visible == (operation = "SHOW")
    IN  UpdateEach(cells, 1, counter, polygon, make_visible)

\* FogOfWar::get_rectangles
RECURSIVE RectanglesFrom(_, _)
RectanglesFrom(cells, i) ==
    IF i > Len(cells) THEN <<>>
    ELSE FowNode_rectangles(cells[i]) \o RectanglesFrom(cells, i + 1)

get_rectangles(cells) == RectanglesFrom(cells, 1)


-----------------------------------------------------------------------------
(* helper.rs: find_intersection.  A Coord on the ray is held as its        *)
(* distance from line.start in 1/DistDen; a wall segment is held as what   *)
(* geo's line_intersection(line, segment) gives for it: None,              *)
(* SinglePoint {intersection} or Collinear {intersection: Line}.           *)

NoIntersection == [kind |-> "None", intersection |-> 0, start |-> 0, end |-> 0]
SinglePoint(intersection) ==
    [kind |-> "SinglePoint", intersection |-> intersection, start |-> 0, end |-> 0]
Collinear(start, end) ==
    [kind |-> "Collinear", intersection |-> 0, start |-> start, end |-> end]

\* fn distance(c1, c2) for two points of the ray
distance(c1, c2) == Abs(c1 - c2)

\* (distance * PRECISION) as i64
as_i64(dist) == (dist * PRECISION) \div DistDen

\* HashMap::insert
insert(map, key, value) ==
    [k \in (DOMAIN map) \cup {key} |-> IF k = key THEN value ELSE map[k]]

\* Vec::sort
RECURSIVE sort(_)
sort(vec) ==
    IF Len(vec) <= 1 THEN vec
    ELSE LET m == CHOOSE i \in DOMAIN vec : \A j \in DOMAIN vec : vec[i] <= vec[j]
             rest == [j \in 1..(Len(vec) - 1) |-> IF j < m THEN vec[j] ELSE vec[j + 1]]
         IN  <<vec[m]>> \o sort(rest)

NoCoord == [some |-> FALSE, coord |-> 0]
SomeCoord(coord) == [some |-> TRUE, coord |-> coord]

\* the loop of find_intersection over wall_segments, from segment i on
RECURSIVE for_segment(_, _, _, _, _)
for_segment(line, wall_segments, i, all_intersections, distances) ==
    IF i > Len(wall_segments)
    THEN [all_intersections |-> all_intersections, distances |-> distances]
    ELSE LET intersection == wall_segments[i]
         IN  IF intersection.kind = "None"
             THEN for_segment(line, wall_segments, i + 1, all_intersections, distances)
             ELSE IF intersection.kind = "SinglePoint"
             THEN LET dist == as_i64(distance(intersection.intersection, line.start))
                  IN  for_segment(line, wall_segments, i + 1,
                          insert(all_intersections, dist, intersection.intersection),
                          Append(distances, dist))
             ELSE LET distance_start == distance(intersection.start, line.start)
                      distance_end == distance(intersection.end, line.start)
                  IN  IF distance_start < distance_end
                      THEN for_segment(line, wall_segments, i + 1,
                              insert(all_intersections, as_i64(distance_start),
                                     intersection.start),
                              Append(distances, as_i64(distance_start)))
                      ELSE IF distance_start > distance_end
                      THEN for_segment(line, wall_segments, i + 1,
                              insert(all_intersections, as_i64(distance_end),
                                     intersection.start),
                              Append(distances, as_i64(distance_end)))
                      ELSE for_segment(line, wall_segments, i + 1,
                              all_intersections, distances)

\* helper::find_intersection
find_intersection(line, wall_segments, skip) ==
    LET walls == for_segment(line, wall_segments, 1, <<>>, <<>>)
        edge_distance == as_i64(distance(line.start, line.end))
        distances == sort(Append(walls.distances, edge_distance))
        all_intersections == insert(walls.all_intersections, edge_distance, line.end)
    IN  IF skip + 1 > Len(distances) THEN NoCoord
        ELSE SomeCoord(all_intersections[distances[skip + 1]])

-----------------------------------------------------------------------------
(* vtt.rs: portals, line segments and the observer checks of fow_change *)

Coordinate(x, y) == [x |-> x, y |-> y]
Line(start, end) == [start |-> start, end |-> end]
Portal(position, bounds, closed) ==
    [position |-> position, bounds |-> bounds, closed |-> closed]

\* Coordinate::within_square: one square is CoordDen tenths
within_square(self, other) ==
    IF other.x < self.x - CoordDen \/ self.x + CoordDen < other.x THEN FALSE
    ELSE IF other.y < self.y - CoordDen \/ self.y + CoordDen < other.y THEN FALSE
    ELSE TRUE

\* distance(c1, c2) squared: min_by compares distances, and the squares
\* compare as the distances do
distance_squared(c1, c2) ==
    (c1.x - c2.x) * (c1.x - c2.x) + (c1.y - c2.y) * (c1.y - c2.y)

\* self.portals.iter_mut().min_by(..): the index of the portal nearest to
\* position, the first of several equally near ones; 0 without portals
closest_door(ports, position) ==
    IF ports = <<>> THEN 0
    ELSE CHOOSE i \in DOMAIN ports :
            \A j \in DOMAIN ports :
                LET di == distance_squared(ports[i].position, position)
                    dj == distance_squared(ports[j].position, position)
                IN  di < dj \/ (di = dj /\ i <= j)

\* the shared body of open_door and close_door
set_door(ports, position, closed) ==
    LET door == closest_door(ports, position)
    IN  IF door # 0 /\ within_square(ports[door].position, position)
        THEN [portals |-> [ports EXCEPT ![door].closed = closed], found |-> TRUE]
        ELSE [portals |-> ports, found |-> FALSE]

\* open_door that finds the door and leaves it as it is
open_door_without_effect(ports, position) ==
    [portals |-> ports, found |-> set_door(ports, position, FALSE).found]

\* VTT::open_door
open_door(ports, position) == set_door(ports, position, FALSE)

\* VTT::close_door
close_door(ports, position) == set_door(ports, position, TRUE)

\* the Line of every two consecutive points of one line, from point i on
RECURSIVE line_segments(_, _)
line_segments(line, i) ==
    IF i >= Len(line) THEN <<>>
    ELSE <<Line(line[i], line[i + 1])>> \o line_segments(line, i + 1)

RECURSIVE lines_segments(_, _)
lines_segments(lines, i) ==
    IF i > Len(lines) THEN <<>>
    ELSE line_segments(lines[i], 1) \o lines_segments(lines, i + 1)

\* the Line between the first two bounds of every closed portal
RECURSIVE portal_segments(_, _)
portal_segments(ports, i) ==
    IF i > Len(ports) THEN <<>>
    ELSE (IF ports[i].closed
          THEN <<Line(ports[i].bounds[1], ports[i].bounds[2])>>
          ELSE <<>>) \o portal_segments(ports, i + 1)

\* VTT::get_line_segments
get_line_segments(los, objects_los, ports, objects) ==
    LET all_lines == lines_segments(los, 1) \o portal_segments(ports, 1)
    IN  IF ~objects THEN all_lines
        ELSE IF ~objects_los.some THEN all_lines
        ELSE all_lines \o lines_segments(objects_los.lines, 1)

\* Euclidean::distance(wall, pov_coord) < 1e-9.  Between points with
\* coordinates in whole tenths the distance is 0 or far above 1e-9: it is 0
\* when pov is the nearest point of the segment.
distance_below_1e_9(wall, pov) ==
    LET dx == wall.end.x - wall.start.x
        dy == wall.end.y - wall.start.y
        len2 == dx * dx + dy * dy
        t == (pov.x - wall.start.x) * dx + (pov.y - wall.start.y) * dy
    IN  IF len2 = 0 \/ t <= 0 THEN pov = wall.start
        ELSE IF t >= len2 THEN pov = wall.end
        ELSE (pov.x - wall.start.x) * dy - (pov.y - wall.start.y) * dx = 0

\* fow_change with the wall check made before the bounds check
fow_change_walls_first(res, los, objects_los, ports, pov, through_objects) ==
    LET walls == get_line_segments(los, objects_los, ports, ~through_objects)
    IN  IF \E i \in DOMAIN walls : distance_below_1e_9(walls[i], pov)
        THEN "InvalidPoint"
        ELSE IF pov.x <= res.map_origin.x \/ res.map_size.x <= pov.x THEN "OutOfBounds"
        ELSE IF pov.y <= res.map_origin.y \/ res.map_size.y <= pov.y THEN "OutOfBounds"
        ELSE "Ok"

\* VTT::fow_change up to the line of sight: the error it returns, or "Ok"
fow_change(res, los, objects_los, ports, pov, through_objects) ==
    IF pov.x <= res.map_origin.x \/ res.map_size.x <= pov.x THEN "OutOfBounds"
    ELSE IF pov.y <= res.map_origin.y \/ res.map_size.y <= pov.y THEN "OutOfBounds"
    ELSE LET walls == get_line_segments(los, objects_los, ports, ~through_objects)
         IN  IF \E i \in DOMAIN walls : distance_below_1e_9(walls[i], pov)
             THEN "InvalidPoint"
             ELSE "Ok"

-----------------------------------------------------------------------------
(* The FogOfWar as a state machine: new, then any sequence of hide_all,     *)
(* show_all and update(operation, polygon)                                  *)

\* map_origin components (0, 0.5 and 1 grid square), whole-number sizes
OriginValues == {0, CoordDen \div 2, CoordDen}

Resolutions ==
    {[map_origin |-> [x |-> ox, y |-> oy],
      map_size |-> [x |-> w * CoordDen, y |-> h * CoordDen],
      pixels_per_grid |-> ppg] :
        ox \in OriginValues, oy \in OriginValues,
        w \in 1..MaxSize, h \in 1..MaxSize, ppg \in 1..MaxPpg}

\* the resolutions of at most MaxCellPixels cells x pixels_per_grid
SmallResolutions ==
    {r \in Resolutions :
        (r.map_size.x \div CoordDen) * (r.map_size.y \div CoordDen) * r.pixels_per_grid
            <= MaxCellPixels}

\* The polygons handed to update: rectangles whose corners lie on every
\* PolyStep-th pixel line of the map
PolyCoords(lo, hi) == {c \in lo..hi : (c - lo) % PolyStep = 0}

Polygons(res) ==
    LET o == PixelCoordinate_from(res.map_origin, res.pixels_per_grid)
        s == PixelCoordinate_from(res.map_size, res.pixels_per_grid)
    IN  {[x0 |-> xs[1], y0 |-> ys[1], x1 |-> xs[2], y1 |-> ys[2]] :
            xs \in {e \in PolyCoords(o.x, s.x) \X PolyCoords(o.x, s.x) : e[1] < e[2]},
            ys \in {e \in PolyCoords(o.y, s.y) \X PolyCoords(o.y, s.y) : e[1] < e[2]}}

NoPolygon == [x0 |-> 0, y0 |-> 0, x1 |-> 0, y1 |-> 0]
RtNone == [phase |-> "none", polygon |-> NoPolygon, before |-> <<>>]

HasPartial(cells) == \E i \in DOMAIN cells : cells[i].state = "Partial"

Called(op) ==
    [op |-> op, prev |-> call.op, had_partial |-> HasPartial(squares)]

NotCalled == [called |-> FALSE]

None == [some |-> FALSE, lines |-> <<>>]
Some(lines) == [some |-> TRUE, lines |-> lines]

\* no update is in progress
ParIdle == workers = <<>> /\ sequential = NotCalled

\* no classification is asked for
ClassifyIdle == in_polygon_arg = NotCalled /\ in_polygon_result = NotCalled

\* no line of sight is asked for
LosIdle == los_arg = NotCalled /\ los_result = NotCalled

\* get_rectangles was not called, and neither open_door nor close_door
RectIdle == rectangles = NotCalled /\ door_call = NotCalled

\* no trees are being merged
MergeIdle == merge_arg = NotCalled /\ merge_result = NotCalled

\* no angle is asked for
AngleIdle == angle_arg = NotCalled /\ angle_result = NotCalled

\* a VTT without walls, objects and portals that no fow_change is made on
VttIdle ==
    /\ line_of_sight = <<>>
    /\ objects_line_of_sight = None
    /\ portals = <<>>
    /\ fow_call = NotCalled
    /\ door_log = <<>>

\* no split and no intersection search is in progress
PureIdle ==
    /\ rect_arg = NotCalled /\ split_result = NotCalled
    /\ find_arg = NotCalled /\ find_result = NotCalled
    /\ VttIdle
    /\ ClassifyIdle /\ LosIdle /\ RectIdle /\ MergeIdle /\ AngleIdle

FogInit ==
    /\ resolution \in SmallResolutions
    /\ squares = FogOfWar_new(resolution).squares
    /\ rectangle_count = FogOfWar_new(resolution).rectangle_count
    /\ call = [op |-> "new", prev |-> "none", had_partial |-> FALSE]
    /\ rt = RtNone
    /\ ParIdle

Init == FogInit /\ PureIdle

\* a FogOfWar of one cell that nothing is called on
FogIdle ==
    /\ resolution = [map_origin |-> [x |-> 0, y |-> 0],
                     map_size |-> [x |-> CoordDen, y |-> CoordDen],
                     pixels_per_grid |-> 1]
    /\ squares = FogOfWar_new(resolution).squares
    /\ rectangle_count = FogOfWar_new(resolution).rectangle_count
    /\ call = [op |-> "new", prev |-> "none", had_partial |-> FALSE]
    /\ rt = RtNone
    /\ ParIdle

\* fog_of_war.hide_all()
DoHideAll ==
    LET r == hide_all(squares, rectangle_count)
    IN  /\ squares' = r.squares
        /\ rectangle_count' = r.rectangle_count
        /\ call' = Called("hide_all")
        /\ UNCHANGED resolution

\* fog_of_war.show_all()
DoShowAll ==
    LET r == show_all(squares, rectangle_count)
    IN  /\ squares' = r.squares
        /\ rectangle_count' = r.rectangle_count
        /\ call' = Called("show_all")
        /\ UNCHANGED resolution

\* fog_of_war.update(operation, polygon)
DoUpdate(operation, polygon) ==
    LET r == update(squares, rectangle_count, operation, polygon)
    IN  /\ squares' = r.squares
        /\ rectangle_count' = r.rectangle_count
        /\ call' = Called(operation)
        /\ UNCHANGED resolution

HideAll == DoHideAll /\ UNCHANGED <<rt, splitVars, findVars, vttVars, parVars, classifyVars, losVars, rectangles, door_call, mergeVars, angleVars>>
ShowAll == DoShowAll /\ UNCHANGED <<rt, splitVars, findVars, vttVars, parVars, classifyVars, losVars, rectangles, door_call, mergeVars, angleVars>>

UpdateHide ==
    \E polygon \in Polygons(resolution) :
        DoUpdate("HIDE", polygon) /\ UNCHANGED <<rt, splitVars, findVars, vttVars, parVars, classifyVars, losVars, rectangles, door_call, mergeVars, angleVars>>

UpdateShow ==
    \E polygon \in Polygons(resolution) :
        DoUpdate("SHOW", polygon) /\ UNCHANGED <<rt, splitVars, findVars, vttVars, parVars, classifyVars, losVars, rectangles, door_call, mergeVars, angleVars>>

Next == HideAll \/ ShowAll \/ UpdateHide \/ UpdateShow

Spec == Init /\ [][Next]_vars

-----------------------------------------------------------------------------
(* The same calls with the round trip monitored: rt remembers the           *)
(* rectangles get_rectangles() returned before an update(HIDE, P) while the  *)
(* next call is update(SHOW, P) with the same P                              *)

RtInit ==
    /\ Init
    /\ resolution.map_origin = [x |-> 0, y |-> 0]
    /\ resolution.pixels_per_grid <= RtMaxPpg

RtHideAll == DoHideAll /\ rt' = RtNone /\ UNCHANGED <<splitVars, findVars, vttVars, parVars, classifyVars, losVars, rectangles, door_call, mergeVars, angleVars>>
RtShowAll == DoShowAll /\ rt' = RtNone /\ UNCHANGED <<splitVars, findVars, vttVars, parVars, classifyVars, losVars, rectangles, door_call, mergeVars, angleVars>>

RtUpdateHide ==
    \E polygon \in Polygons(resolution) :
        /\ DoUpdate("HIDE", polygon)
        /\ rt' = [phase |-> "hidden", polygon |-> polygon,
                  before |-> get_rectangles(squares)]
        /\ UNCHANGED <<splitVars, findVars, vttVars, parVars, classifyVars, losVars, rectangles, door_call, mergeVars, angleVars>>

RtUpdateShow ==
    \E polygon \in Polygons(resolution) :
        /\ DoUpdate("SHOW", polygon)
        /\ rt' = IF rt.phase = "hidden" /\ rt.polygon = polygon
                 THEN [rt EXCEPT !.phase = "shown"]
                 ELSE RtNone
        /\ UNCHANGED <<splitVars, findVars, vttVars, parVars, classifyVars, losVars, rectangles, door_call, mergeVars, angleVars>>

RtNext == RtHideAll \/ RtShowAll \/ RtUpdateHide \/ RtUpdateShow

SpecRoundTrip == RtInit /\ [][RtNext]_vars

-----------------------------------------------------------------------------
(* Properties of the FogOfWar under Spec *)

\* C1: counter invariant.  After FogOfWar::new and after every hide_all,
\* show_all and update, rectangle_count equals the number of rectangles that
\* get_rectangles() returns.
C1_CounterInvariant == rectangle_count = Len(get_rectangles(squares))


AllCells(state) ==
    \A i \in DOMAIN squares : squares[i].state = state /\ squares[i].node = NoNode

\* C2: after hide_all(), whatever the grid held before (Partial cells
\* included), every cell is Hidden and holds no tree, get_rectangles() is
\* the sequence of the cells' own rectangles, and the counter is the number
\* of cells.
C2_HideAll ==
    call.op = "hide_all" =>
        /\ AllCells("Hidden")
        /\ get_rectangles(squares) = [i \in 1..Len(squares) |-> squares[i].rect]
        /\ rectangle_count = Len(squares)

C2_Witness ==
    /\ call.op = "hide_all"
    /\ call.had_partial
    /\ Len(squares) >= 2

\* C3: after show_all(), whatever the grid held before, every cell is Shown,
\* get_rectangles() is empty and the counter is 0; so hide_all() followed by
\* show_all() leaves no hidden rectangle.
C3_ShowAll ==
    call.op = "show_all" =>
        /\ AllCells("Shown")
        /\ get_rectangles(squares) = <<>>
        /\ rectangle_count = 0

C3_Witness ==
    /\ call.op = "show_all"
    /\ call.prev = "hide_all"
    /\ Len(squares) >= 2

\* C4: update(HIDE, P) followed immediately by update(SHOW, P) leaves
\* get_rectangles() returning the set of rectangles it returned before the
\* HIDE.
C4_RoundTrip ==
    rt.phase = "shown" => Range(get_rectangles(squares)) = Range(rt.before)

\* The grid squares of a resolution: columns floor(origin.x) .. W - 1 and
\* rows floor(origin.y) .. H - 1
GridCols(res) == Max(0, (res.map_size.x \div CoordDen) - (res.map_origin.x \div CoordDen))
GridRows(res) == Max(0, (res.map_size.y \div CoordDen) - (res.map_origin.y \div CoordDen))

\* the rectangle of the i-th cell (from 1) in row-major order: a square of
\* pixels_per_grid x pixels_per_grid pixels, bounds inclusive
GridRect(res, i) ==
    LET o == PixelCoordinate_from(res.map_origin, res.pixels_per_grid)
        col == (i - 1) % GridCols(res)
        row == (i - 1) \div GridCols(res)
        x == o.x + col * res.pixels_per_grid
        y == o.y + row * res.pixels_per_grid
    IN  [topleft |-> [x |-> x, y |-> y],
         bottomright |-> [x |-> x + res.pixels_per_grid - 1,
                          y |-> y + res.pixels_per_grid - 1]]

Contains(rect, x, y) ==
    /\ rect.topleft.x <= x /\ x <= rect.bottomright.x
    /\ rect.topleft.y <= y /\ y <= rect.bottomright.y

\* C5: FogOfWar::new makes one cell per grid square in row-major order, each
\* a pixels_per_grid x pixels_per_grid square with inclusive bounds; every
\* pixel of the map lies in exactly one cell and no pixel lies in two; the
\* cells start Shown with counter 0; and the number of cells and every
\* cell's rectangle stay what new made them under hide_all, show_all and
\* update.
C5_Grid ==
    LET o == PixelCoordinate_from(resolution.map_origin, resolution.pixels_per_grid)
        s == PixelCoordinate_from(resolution.map_size, resolution.pixels_per_grid)
    IN  /\ Len(squares) = GridCols(resolution) * GridRows(resolution)
        /\ \A i \in DOMAIN squares : squares[i].rect = GridRect(resolution, i)
        /\ \A x \in o.x..(s.x - 1), y \in o.y..(s.y - 1) :
              Cardinality({i \in DOMAIN squares : Contains(squares[i].rect, x, y)}) = 1
        /\ \A i \in DOMAIN squares, j \in DOMAIN squares :
              i # j => \A x \in squares[i].rect.topleft.x..squares[i].rect.bottomright.x,
                          y \in squares[i].rect.topleft.y..squares[i].rect.bottomright.y :
                          ~Contains(squares[j].rect, x, y)
        /\ call.op = "new" => AllCells("Shown") /\ rectangle_count = 0

C5_Witness ==
    /\ call.op \in {"HIDE", "SHOW"}
    /\ call.prev \in {"hide_all", "show_all"}
    /\ Len(squares) = 4
    /\ resolution.map_origin.x > 0


-----------------------------------------------------------------------------
(* FoWRectangle::split as a function of its rectangle *)

\* the rectangles split is tried on: bottomright - topleft from 0 to
\* MaxSplitEdge in both directions
SplitRects ==
    {FoWRectangle_new(PixelCoordinate_new(x, y), PixelCoordinate_new(x + w, y + h)) :
        x \in 0..1, y \in 0..1, w \in 0..MaxSplitEdge, h \in 0..MaxSplitEdge}

SplitInit ==
    /\ rect_arg \in SplitRects
    /\ split_result = NotCalled
    /\ find_arg = NotCalled /\ find_result = NotCalled
    /\ FogIdle /\ VttIdle /\ ClassifyIdle /\ LosIdle /\ RectIdle /\ MergeIdle /\ AngleIdle

Split ==
    /\ split_result = NotCalled
    /\ split_result' = [called |-> TRUE, result |-> split(rect_arg)]
    /\ UNCHANGED <<fogVars, rt, rect_arg, findVars, vttVars, parVars, classifyVars, losVars, rectangles, door_call, mergeVars, angleVars>>

SplitNext == Split

SpecSplit == SplitInit /\ [][SplitNext]_vars

PixelWidth(rect) == rect.bottomright.x - rect.topleft.x + 1
PixelHeight(rect) == rect.bottomright.y - rect.topleft.y + 1
Pixels(rect) ==
    (rect.topleft.x..rect.bottomright.x) \X (rect.topleft.y..rect.bottomright.y)

\* C6: split invariant.  When split succeeds, every pixel of the parent lies
\* in exactly one of the four children (so they are pairwise disjoint and
\* leave no gap), no child has a pixel outside the parent, and the widths of
\* horizontal siblings and the heights of vertical siblings differ by at
\* most one pixel.
C6_SplitTiles ==
    (split_result.called /\ split_result.result.ok) =>
        LET c == split_result.result.children
        IN  /\ Len(c) = 4
            /\ \A px \in Pixels(rect_arg) :
                  Cardinality({i \in 1..4 : px \in Pixels(c[i])}) = 1
            /\ \A i \in 1..4 : Pixels(c[i]) # {} /\ Pixels(c[i]) \subseteq Pixels(rect_arg)
            /\ Abs(PixelWidth(c[1]) - PixelWidth(c[2])) <= 1
            /\ Abs(PixelWidth(c[3]) - PixelWidth(c[4])) <= 1
            /\ Abs(PixelHeight(c[1]) - PixelHeight(c[3])) <= 1
            /\ Abs(PixelHeight(c[2]) - PixelHeight(c[4])) <= 1

C6_Witness ==
    /\ split_result.called /\ split_result.result.ok
    /\ PixelWidth(rect_arg) = 5 /\ PixelHeight(rect_arg) = 4
    /\ rect_arg.topleft = [x |-> 1, y |-> 1]

-----------------------------------------------------------------------------
(* find_intersection as a function of the ray, the walls and skip *)

\* what line_intersection can give for a wall and a ray of the given length
Intersections(edge) ==
    {NoIntersection}
        \cup {SinglePoint(c) : c \in 0..edge}
        \cup {Collinear(c[1], c[2]) : c \in {e \in (0..edge) \X (0..edge) : e[1] # e[2]}}

WallLists(edge) ==
    UNION {[1..n -> Intersections(edge)] : n \in 0..MaxWalls}

FindArgs ==
    {[called |-> TRUE, line |-> [start |-> 0, end |-> edge],
      wall_segments |-> w, skip |-> skip] :
        edge \in {MaxDist - 1, MaxDist}, w \in WallLists(MaxDist), skip \in 0..(MaxWalls + 1)}

FindInit ==
    /\ find_arg \in
          {a \in FindArgs :
              \A i \in DOMAIN a.wall_segments :
                  a.wall_segments[i] \in Intersections(a.line.end)}
    /\ find_result = NotCalled
    /\ rect_arg = NotCalled /\ split_result = NotCalled
    /\ FogIdle /\ VttIdle /\ ClassifyIdle /\ LosIdle /\ RectIdle /\ MergeIdle /\ AngleIdle

Find ==
    /\ find_result = NotCalled
    /\ find_result' =
          [called |-> TRUE,
           result |-> find_intersection(find_arg.line, find_arg.wall_segments,
                                        find_arg.skip)]
    /\ UNCHANGED <<fogVars, rt, splitVars, find_arg, vttVars, parVars, classifyVars, losVars, rectangles, door_call, mergeVars, angleVars>>

FindNext == Find

SpecFind == FindInit /\ [][FindNext]_vars

\* the point of the ray where a wall meets it: the intersection point, or
\* the nearer end of the stretch a collinear wall shares with the ray
WallPoint(w) ==
    IF w.kind = "SinglePoint" THEN w.intersection ELSE Min(w.start, w.end)

\* the walls that meet the ray nearer than its far endpoint
NearerWalls(a) ==
    {i \in DOMAIN a.wall_segments :
        /\ a.wall_segments[i].kind # "None"
        /\ WallPoint(a.wall_segments[i]) < a.line.end}

\* the n-th nearest (n = 1, 2, ...) of those walls' points
NthNearest(a, n) ==
    CHOOSE c \in {WallPoint(a.wall_segments[i]) : i \in NearerWalls(a)} :
        /\ Cardinality({i \in NearerWalls(a) : WallPoint(a.wall_segments[i]) < c}) < n
        /\ Cardinality({i \in NearerWalls(a) : WallPoint(a.wall_segments[i]) <= c}) >= n

\* C8: find_intersection(ray, walls, skip) returns the candidates in
\* ascending order of distance from the ray start.  With k walls meeting the
\* ray nearer than its far endpoint, skip = i < k returns the (i+1)-th
\* nearest wall intersection, skip = k returns the far endpoint of the ray
\* and skip > k returns none; walls that do not meet the ray add nothing.
C8_FindIntersection ==
    find_result.called =>
        LET k == Cardinality(NearerWalls(find_arg))
        IN  find_result.result =
                IF find_arg.skip < k
                THEN SomeCoord(NthNearest(find_arg, find_arg.skip + 1))
                ELSE IF find_arg.skip = k THEN SomeCoord(find_arg.line.end)
                ELSE NoCoord

-----------------------------------------------------------------------------
(* vtt.rs: fow_change with the FogOfWar it works on.  args holds pov,       *)
(* operation and through_objects; line_of_sight_polygon is what             *)
(* calculate_direct_los or calculate_indirect_los give for pov.             *)

\* fow_change handing the polygon to the FogOfWar before it looks at pov
VTT_fow_change_update_first(res, los, objects_los, ports, cells, counter, args, line_of_sight_polygon) ==
    [result |-> fow_change(res, los, objects_los, ports, args.pov, args.through_objects),
     fog |-> update(cells, counter, args.operation, line_of_sight_polygon)]

\* VTT::fow_change
VTT_fow_change(res, los, objects_los, ports, cells, counter, args, line_of_sight_polygon) ==
    \* the result, and the cells and the counter after the call
    LET result == fow_change(res, los, objects_los, ports, args.pov, args.through_objects)
    IN  IF result # "Ok"
        THEN [result |-> result, fog |-> [squares |-> cells, rectangle_count |-> counter]]
        ELSE [result |-> "Ok",
              fog |-> update(cells, counter, args.operation, line_of_sight_polygon)]

-----------------------------------------------------------------------------
(* The VTT as a state machine: a map of one square with a wall, two doors   *)
(* and an object; fow_change, open_door and close_door in any order.  The    *)
(* line of sight polygon that fow_change hands to FogOfWar::update, direct   *)
(* or around walls, is left open: any polygon of the map.                    *)

VttResolutions ==
    {r \in Resolutions :
        /\ r.map_size = Coordinate(CoordDen, CoordDen)
        /\ r.pixels_per_grid = VttPpg
        /\ r.map_origin \in {Coordinate(0, 0), Coordinate(CoordDen \div 2, CoordDen \div 2)}}

\* a wall from the top edge to the middle and on to the left edge
Walls == << <<Coordinate(5, 0), Coordinate(5, 5), Coordinate(0, 5)>> >>

\* a closed door at the bottom edge and an open door at the right edge
Doors ==
    << Portal(Coordinate(5, 8), <<Coordinate(5, 7), Coordinate(5, 10)>>, TRUE),
       Portal(Coordinate(8, 5), <<Coordinate(7, 5), Coordinate(10, 5)>>, FALSE) >>

Objects == << <<Coordinate(7, 7), Coordinate(10, 7)>> >>

\* where observers stand: on and off the edges, the wall, the doors, the object
PovValues == {0, 5, 7, 10}
Povs == {Coordinate(x, y) : x \in PovValues, y \in PovValues}

\* where doors are looked for: at either door, between both, far from both
DoorPositions ==
    {Coordinate(5, 8), Coordinate(8, 5), Coordinate(7, 7), Coordinate(30, 30)}

VttInit ==
    /\ resolution \in VttResolutions
    /\ squares = FogOfWar_new(resolution).squares
    /\ rectangle_count = FogOfWar_new(resolution).rectangle_count
    /\ call = [op |-> "new", prev |-> "none", had_partial |-> FALSE]
    /\ rt = RtNone
    /\ ParIdle /\ ClassifyIdle /\ LosIdle /\ RectIdle /\ MergeIdle /\ AngleIdle
    /\ line_of_sight = Walls
    /\ objects_line_of_sight \in {None, Some(Objects)}
    /\ portals = Doors
    /\ fow_call = NotCalled
    /\ door_log = [i \in DOMAIN Doors |-> "none"]
    /\ rect_arg = NotCalled /\ split_result = NotCalled
    /\ find_arg = NotCalled /\ find_result = NotCalled

FowCalled(pov, through_objects, result) ==
    [called |-> TRUE, pov |-> pov, through_objects |-> through_objects,
     result |-> result]

\* (f.x * ppg).round() of a grid coordinate f.x >= 0
round_to_pixel(c, ppg) == (2 * c * ppg + CoordDen) \div (2 * CoordDen)

\* the whole map as a polygon
MapPolygon(res) ==
    [x0 |-> round_to_pixel(res.map_origin.x, res.pixels_per_grid),
     y0 |-> round_to_pixel(res.map_origin.y, res.pixels_per_grid),
     x1 |-> round_to_pixel(res.map_size.x, res.pixels_per_grid),
     y1 |-> round_to_pixel(res.map_size.y, res.pixels_per_grid)]

\* the polygons fow_change may hand to the FogOfWar: the whole map and the
\* polygons of update that lie in it
LosPolygons(res) == {MapPolygon(res)} \cup Polygons(res)

\* how far the counter is from 0 in the usize ring
CounterDrift(counter) == Min(counter, UsizeMod - counter)

FowArgs ==
    {[pov |-> pov, operation |-> operation, through_objects |-> through_objects] :
        pov \in Povs, operation \in {"HIDE", "SHOW"}, through_objects \in BOOLEAN}

\* the result of fow_change(args) in the current state
FowResult(args) ==
    fow_change(resolution, line_of_sight, objects_line_of_sight, portals,
               args.pov, args.through_objects)

\* fow_change returning Err(OutOfBounds) or Err(InvalidPoint); no line of
\* sight is computed for such a pov
FowChangeErr ==
    \E args \in FowArgs :
        /\ FowResult(args) # "Ok"
        /\ \E r \in {VTT_fow_change(resolution, line_of_sight, objects_line_of_sight,
                                     portals, squares, rectangle_count, args,
                                     MapPolygon(resolution))} :
               /\ squares' = r.fog.squares
               /\ rectangle_count' = r.fog.rectangle_count
               /\ fow_call' = FowCalled(args.pov, args.through_objects, r.result)
        /\ UNCHANGED <<resolution, call, rt, splitVars, findVars, line_of_sight,
                       objects_line_of_sight, portals, door_log, parVars, classifyVars, losVars, rectangles, door_call, mergeVars, angleVars>>

\* fow_change returning Ok(()) after fog_of_war.update(operation, polygon),
\* while the counter is at most MaxDrift away from 0
FowChangeOk ==
    \E args \in FowArgs :
        /\ FowResult(args) = "Ok"
        /\ CounterDrift(rectangle_count) <= MaxDrift
        /\ \E line_of_sight_polygon \in LosPolygons(resolution) :
              \E r \in {VTT_fow_change(resolution, line_of_sight, objects_line_of_sight,
                                        portals, squares, rectangle_count, args,
                                        line_of_sight_polygon)} :
                  /\ squares' = r.fog.squares
                  /\ rectangle_count' = r.fog.rectangle_count
                  /\ fow_call' = FowCalled(args.pov, args.through_objects, r.result)
        /\ call' = Called(args.operation)
        /\ UNCHANGED <<resolution, rt, splitVars, findVars, line_of_sight,
                       objects_line_of_sight, portals, door_log, parVars, classifyVars, losVars, rectangles, door_call, mergeVars, angleVars>>

\* what door_log holds for the door that open_door or close_door found
Logged(found, position, entry) ==
    IF found
    THEN [door_log EXCEPT ![closest_door(portals, position)] =
             IF entry = "closed" /\ @ = "opened" THEN "reclosed"
             ELSE IF entry = "closed" /\ @ = "reclosed" THEN "reclosed"
             ELSE entry]
    ELSE door_log

OpenDoor ==
    \E position \in DoorPositions :
        LET r == open_door(portals, position)
        IN  /\ portals' = r.portals
            /\ door_log' = Logged(r.found, position, "opened")
            /\ fow_call' = NotCalled
            /\ UNCHANGED <<fogVars, rt, splitVars, findVars, line_of_sight,
                           objects_line_of_sight, parVars, classifyVars, losVars, rectangles, door_call, mergeVars, angleVars>>

CloseDoor ==
    \E position \in DoorPositions :
        LET r == close_door(portals, position)
        IN  /\ portals' = r.portals
            /\ door_log' = Logged(r.found, position, "closed")
            /\ fow_call' = NotCalled
            /\ UNCHANGED <<fogVars, rt, splitVars, findVars, line_of_sight,
                           objects_line_of_sight, parVars, classifyVars, losVars, rectangles, door_call, mergeVars, angleVars>>

VttNext == FowChangeErr \/ FowChangeOk \/ OpenDoor \/ CloseDoor

SpecVTT == VttInit /\ [][VttNext]_vars

\* C9: fow_change returns OutOfBounds exactly when the observer is not
\* strictly inside the map extent: x <= origin.x, x >= size.x, y <= origin.y
\* or y >= size.y, so a coordinate equal to the size boundary is rejected.
\* The check comes before the wall check: an observer out of bounds and on a
\* wall gets OutOfBounds, not InvalidPoint.
C9_OutOfBounds ==
    fow_call.called =>
        (fow_call.result = "OutOfBounds" <=>
            \/ fow_call.pov.x <= resolution.map_origin.x
            \/ fow_call.pov.x >= resolution.map_size.x
            \/ fow_call.pov.y <= resolution.map_origin.y
            \/ fow_call.pov.y >= resolution.map_size.y)

\* an observer on the end of the closed first door at the bottom edge,
\* y = size.y
C9_Witness ==
    /\ fow_call.called
    /\ fow_call.pov = Coordinate(5, 10)
    /\ portals[1].closed
    /\ fow_call.result = "OutOfBounds"

\* pov lies on the segment from a to b
OnSegment(a, b, pov) ==
    /\ (b.x - a.x) * (pov.y - a.y) = (b.y - a.y) * (pov.x - a.x)
    /\ Min(a.x, b.x) <= pov.x /\ pov.x <= Max(a.x, b.x)
    /\ Min(a.y, b.y) <= pov.y /\ pov.y <= Max(a.y, b.y)

OnLines(lines, pov) ==
    \E l \in DOMAIN lines : \E i \in 1..(Len(lines[l]) - 1) :
        OnSegment(lines[l][i], lines[l][i + 1], pov)

\* a door is closed when close_door closed it last, open when open_door
\* opened it last, and as the file has it when neither found it
CurrentlyClosed(i) ==
    IF door_log[i] = "none" THEN Doors[i].closed
    ELSE door_log[i] \in {"closed", "reclosed"}

\* C10: for an observer in bounds, fow_change returns InvalidPoint exactly
\* when the observer lies on a wall segment, on the bounds segment of a
\* portal that is currently closed or, when through_objects is false, on an
\* object line-of-sight segment.  A portal that open_door opened does not
\* cause the rejection, and closing it again with close_door restores it.
C10_InvalidPoint ==
    (fow_call.called /\ fow_call.result # "OutOfBounds") =>
        (fow_call.result = "InvalidPoint" <=>
            \/ OnLines(line_of_sight, fow_call.pov)
            \/ \E i \in DOMAIN Doors :
                  /\ CurrentlyClosed(i)
                  /\ OnSegment(Doors[i].bounds[1], Doors[i].bounds[2], fow_call.pov)
            \/ /\ ~fow_call.through_objects
               /\ objects_line_of_sight.some
               /\ OnLines(objects_line_of_sight.lines, fow_call.pov))

\* an observer on the bounds of the first door only, after the door was
\* opened and closed again
C10_Witness ==
    /\ fow_call.called
    /\ fow_call.pov = Coordinate(5, 7)
    /\ door_log[1] = "reclosed"
    /\ fow_call.result = "InvalidPoint"

\* C11: a rejected update never partially applies.  Whenever fow_change
\* returns an error (OutOfBounds or InvalidPoint), every grid cell, with its
\* subtree, and the counter are what they were before the call.
C11_RejectedUnchanged ==
    [][(fow_call'.called /\ fow_call'.result # "Ok") =>
          (squares' = squares /\ rectangle_count' = rectangle_count)]_vars

\* an observer on the wall rejected after an earlier fow_change hid the cell
C11_Witness ==
    /\ fow_call.called
    /\ fow_call.result = "InvalidPoint"
    /\ call.op = "HIDE"
    /\ squares[1].state = "Hidden"

-----------------------------------------------------------------------------
(* update with its closures interleaved.  par_iter_mut hands every cell to  *)
(* a closure of its own; the closures run in any order and interleave at    *)
(* their calls on the shared counter.  A closure first classifies its cell  *)
(* and settles the cell's state (the cell is borrowed mutably, so no other  *)
(* closure sees it), then makes its counter calls one at a time.            *)

\* pixels_per_grid of the two-cell map whose update is interleaved
ParPpg == 4

\* an interleaved update starts with the counter at most this far from 0
MaxParDrift == 1

\* a map of 2 x 2 cells of one pixel and a map of 2 x 1 cells of ParPpg pixels
ParResolutions ==
    {r \in Resolutions :
        /\ r.map_origin = [x |-> 0, y |-> 0]
        /\ r.map_size.x = 2 * CoordDen
        /\ \/ r.map_size.y = 2 * CoordDen /\ r.pixels_per_grid = 1
           \/ r.map_size.y = CoordDen /\ r.pixels_per_grid = ParPpg}

Worker(pc, ops) == [pc |-> pc, ops |-> ops]

AllDone == workers # <<>> /\ \A i \in DOMAIN workers : workers[i].pc = "done"

ParHideAll ==
    /\ workers = <<>>
    /\ LET r == hide_all(squares, rectangle_count)
       IN  squares' = r.squares /\ rectangle_count' = r.rectangle_count
    /\ sequential' = NotCalled
    /\ UNCHANGED <<resolution, call, rt, splitVars, findVars, vttVars, workers, classifyVars, losVars, rectangles, door_call, mergeVars, angleVars>>

ParShowAll ==
    /\ workers = <<>>
    /\ LET r == show_all(squares, rectangle_count)
       IN  squares' = r.squares /\ rectangle_count' = r.rectangle_count
    /\ sequential' = NotCalled
    /\ UNCHANGED <<resolution, call, rt, splitVars, findVars, vttVars, workers, classifyVars, losVars, rectangles, door_call, mergeVars, angleVars>>

\* update entered: one closure per cell
ParBegin ==
    /\ workers = <<>>
    /\ CounterDrift(rectangle_count) <= MaxParDrift
    /\ \E operation \in {"HIDE", "SHOW"}, polygon \in Polygons(resolution) :
          /\ sequential' = [called |-> TRUE, operation |-> operation, polygon |-> polygon,
                            before |-> squares,
                            result |-> update(squares, rectangle_count, operation, polygon)]
    /\ workers' = [i \in DOMAIN squares |-> Worker("update", <<>>)]
    /\ UNCHANGED <<resolution, squares, rectangle_count, call, rt, splitVars, findVars, vttVars, classifyVars, losVars, rectangles, door_call, mergeVars, angleVars>>

\* the closure of cell i up to its first call on the counter
ParCell(i) ==
    /\ workers[i].pc = "update"
    /\ LET make_visible == (sequential.operation = "SHOW")
           r == FowNode_update(squares[i], sequential.polygon, make_visible, rectangle_count)
           ops == FowNode_update_ops(squares[i], sequential.polygon, make_visible)
       IN  /\ squares' = [squares EXCEPT ![i] = r.cell]
           /\ workers' = [workers EXCEPT
                              ![i] = Worker(IF ops = <<>> THEN "done" ELSE "counter", ops)]
    /\ UNCHANGED <<resolution, rectangle_count, call, sequential, rt, splitVars, findVars,
                   vttVars, classifyVars, losVars, rectangles, door_call, mergeVars, angleVars>>

\* the next call of the closure of cell i on the counter
ParCounter(i) ==
    /\ workers[i].pc = "counter"
    /\ rectangle_count' = atomic(Head(workers[i].ops), rectangle_count)
    /\ workers' = [workers EXCEPT
                       ![i] = Worker(IF Len(workers[i].ops) = 1 THEN "done" ELSE "counter",
                                     Tail(workers[i].ops))]
    /\ UNCHANGED <<resolution, squares, call, sequential, rt, splitVars, findVars, vttVars, classifyVars, losVars, rectangles, door_call, mergeVars, angleVars>>

\* every closure has returned: update returns
ParJoin ==
    /\ AllDone
    /\ workers' = <<>>
    /\ UNCHANGED <<fogVars, sequential, rt, splitVars, findVars, vttVars, classifyVars, losVars, rectangles, door_call, mergeVars, angleVars>>

ParStep == \E i \in DOMAIN workers : ParCell(i) \/ ParCounter(i)

ParNext == ParHideAll \/ ParShowAll \/ ParBegin \/ ParStep \/ ParJoin

ParInit ==
    /\ resolution \in ParResolutions
    /\ squares = FogOfWar_new(resolution).squares
    /\ rectangle_count = FogOfWar_new(resolution).rectangle_count
    /\ call = [op |-> "new", prev |-> "none", had_partial |-> FALSE]
    /\ rt = RtNone
    /\ ParIdle /\ PureIdle

SpecPar == ParInit /\ [][ParNext]_vars

\* C12: whatever the order and interleaving of the closures of update, once
\* all of them have returned every cell and the counter are what processing
\* the cells one after the other in index order gives (so no call on the
\* counter is lost), and a step of the closure of one cell leaves every
\* other cell as it was.
C12_Interleaving ==
    [][/\ AllDone' => /\ squares' = sequential'.result.squares
                      /\ rectangle_count' = sequential'.result.rectangle_count
       /\ (workers # <<>> /\ workers' # <<>>) =>
              \A j \in DOMAIN squares :
                  workers'[j] = workers[j] => squares'[j] = squares[j]]_vars

\* an update has run to its end in which one cell went Partial and another
\* cell changed its state
C12_Witness ==
    /\ AllDone
    /\ \E i \in DOMAIN squares :
          /\ squares[i].state = "Partial" /\ sequential.before[i].state # "Partial"
          /\ \E j \in DOMAIN squares :
                j # i /\ squares[j].state # sequential.before[j].state

-----------------------------------------------------------------------------
(* in_polygon on its own: rectangles and polygons whose areas give ratios    *)
(* on, just above and just below the two thresholds                          *)

\* the thresholds 0.9999 and 0.0001 are 9999 / RatioDen and 1 / RatioDen
RatioDen == 10000

ClassifyWidths == {0, 1, 2, RatioDen, 2 * RatioDen}
ClassifyHeights == {0, 1, 2}
ClassifyEdges ==
    {1, 2, RatioDen \div 2, RatioDen - 2, RatioDen - 1, RatioDen,
     2 * RatioDen - 2, 2 * RatioDen - 1, 2 * RatioDen}

ClassifyArgs ==
    {[rect |-> FoWRectangle_new(PixelCoordinate_new(0, 0), PixelCoordinate_new(w, h)),
      polygon |-> [x0 |-> x0, y0 |-> 0, x1 |-> x1, y1 |-> y1]] :
        w \in ClassifyWidths, h \in ClassifyHeights,
        x0 \in {0, 1}, x1 \in ClassifyEdges \ {1}, y1 \in {1, 2}}

ClassifyInit ==
    /\ in_polygon_arg \in ClassifyArgs
    /\ in_polygon_result = NotCalled
    /\ rect_arg = NotCalled /\ split_result = NotCalled
    /\ find_arg = NotCalled /\ find_result = NotCalled
    /\ FogIdle /\ VttIdle /\ LosIdle /\ RectIdle /\ MergeIdle /\ AngleIdle

Classify ==
    /\ in_polygon_result = NotCalled
    /\ in_polygon_result' =
          [called |-> TRUE,
           result |-> in_polygon(in_polygon_arg.rect, in_polygon_arg.polygon)]
    /\ UNCHANGED <<fogVars, rt, splitVars, findVars, vttVars, parVars, in_polygon_arg, losVars, rectangles, door_call, mergeVars, angleVars>>

ClassifyNext == Classify

SpecClassify == ClassifyInit /\ [][ClassifyNext]_vars

\* the ratio intersection / area of the call equals num / den
RatioIs(num, den) ==
    den * IntersectionArea(in_polygon_arg.rect, in_polygon_arg.polygon)
        = num * RectangleArea(in_polygon_arg.rect)

\* C13: for a rectangle of positive area and r = area(rectangle intersect
\* polygon) / area(rectangle), in_polygon gives INSIDE exactly when
\* r > 0.9999, OUTSIDE exactly when r < 0.0001 and PARTIAL otherwise: INSIDE
\* for r = 0.99995, OUTSIDE for r = 0.00005, PARTIAL for r = 0.5, for
\* r = 0.9999 and for r = 0.0001.
C13_Thresholds ==
    (in_polygon_result.called /\ RectangleArea(in_polygon_arg.rect) > 0) =>
        LET inter == IntersectionArea(in_polygon_arg.rect, in_polygon_arg.polygon)
            area == RectangleArea(in_polygon_arg.rect)
            above == RatioDen * inter > (RatioDen - 1) * area
            below == RatioDen * inter < area
            result == in_polygon_result.result
        IN  /\ result = "INSIDE" <=> above
            /\ result = "OUTSIDE" <=> below
            /\ result = "PARTIAL" <=> (~above /\ ~below)
            /\ RatioIs(2 * RatioDen - 1, 2 * RatioDen) => result = "INSIDE"
            /\ RatioIs(1, 2 * RatioDen) => result = "OUTSIDE"
            /\ RatioIs(1, 2) => result = "PARTIAL"
            /\ RatioIs(RatioDen - 1, RatioDen) => result = "PARTIAL"
            /\ RatioIs(1, RatioDen) => result = "PARTIAL"

\* a rectangle of which exactly 0.9999 lies in the polygon was classified
C13_Witness ==
    /\ in_polygon_result.called
    /\ RectangleArea(in_polygon_arg.rect) > 0
    /\ RatioIs(RatioDen - 1, RatioDen)
    /\ in_polygon_result.result = "PARTIAL"

-----------------------------------------------------------------------------
(* vtt.rs: the direct line of sight.  Grid coordinates are in tenths, so    *)
(* the sample points (multiples of STEP_SIZE) are exact.  A wall is held as *)
(* what line_intersection gives for it on each ray; the walls of a call     *)
(* either meet no ray, or the first of them crosses one ray at its middle.  *)

\* STEP_SIZE = 0.2 grid squares, in tenths
STEP_SIZE == 2

\* f64 as i32 of a non-negative coordinate
as_i32(c) == c \div CoordDen

\* (1.0 / STEP_SIZE) as i32
steps_per_square == CoordDen \div STEP_SIZE

\* the largest r in lo..hi with r * r <= n
RECURSIVE sqrt_between(_, _, _)
sqrt_between(n, lo, hi) ==
    IF lo = hi THEN lo
    ELSE LET mid == (lo + hi + 1) \div 2
         IN  IF mid * mid <= n THEN sqrt_between(n, mid, hi)
             ELSE sqrt_between(n, lo, mid - 1)

\* helper::distance of two grid points, in 1/DistDen of a square (to a
\* thousandth of a square)
ray_length(c1, c2) ==
    LET squared == (c1.x - c2.x) * (c1.x - c2.x) + (c1.y - c2.y) * (c1.y - c2.y)
    IN  sqrt_between(10000 * squared, 0, 100 * (Abs(c1.x - c2.x) + Abs(c1.y - c2.y)))
            * (DistDen \div (100 * CoordDen))

\* the end points of the rays of for_each_interesection, in the order of its
\* four loops: top edge, right edge, bottom edge, left edge
top_edge(res) ==
    LET x_min == as_i32(res.map_origin.x)
        x_max == as_i32(res.map_size.x)
        y_min == res.map_origin.y
    IN  [k \in 1..(x_max * steps_per_square - x_min + 1) |->
            Coordinate((x_min + k - 1) * STEP_SIZE, y_min)]

right_edge(res) ==
    LET x_max == res.map_size.x
        y_min == as_i32(res.map_origin.y) + 1
        y_max == as_i32(res.map_size.y)
    IN  [k \in 1..(y_max * steps_per_square - y_min + 1) |->
            Coordinate(x_max, (y_min + k - 1) * STEP_SIZE)]

bottom_edge(res) ==
    LET x_min == as_i32(res.map_origin.x)
        x_max == as_i32(res.map_size.x)
        y_max == res.map_size.y
    IN  [k \in 1..(x_max * steps_per_square - 1 - x_min + 1) |->
            Coordinate((x_max * steps_per_square - 1 - (k - 1)) * STEP_SIZE, y_max)]

left_edge(res) ==
    LET x_max == res.map_origin.x
        y_min == as_i32(res.map_origin.y)
        y_max == as_i32(res.map_size.y)
    IN  [k \in 1..(y_max * steps_per_square - 1 - y_min + 1) |->
            Coordinate(x_max, (y_max * steps_per_square - 1 - (k - 1)) * STEP_SIZE)]

ray_ends(res) == top_edge(res) \o right_edge(res) \o bottom_edge(res) \o left_edge(res)

\* 1e-9 of a grid square, the unit being 1e-10 of a square
Tolerance == 10

\* the point where the ray from pov to end crosses a wall that runs along
\* the y axis through pov, near units (of 1e-10 of a square) to the left of
\* pov: fx and fy are its offsets from (x, y) in those units
near_point(pov, end, near) ==
    [x |-> pov.x, y |-> pov.y, fx |-> 0 - near,
     fy |-> ((end.y - pov.y) * near) \div (pov.x - end.x)]

\* the offsets of a point from its coordinates in tenths
fine(c) == IF "fx" \in DOMAIN c THEN <<c.fx, c.fy>> ELSE <<0, 0>>

\* helper::distance(c1, c2) > 1e-9
distance_above_1e_9(c1, c2) ==
    \/ c1.x # c2.x \/ c1.y # c2.y
    \/ (fine(c1)[1] - fine(c2)[1]) * (fine(c1)[1] - fine(c2)[1])
         + (fine(c1)[2] - fine(c2)[2]) * (fine(c1)[2] - fine(c2)[2])
           > Tolerance * Tolerance

\* what line_intersection gives for the walls on ray k from pov to end:
\* nothing, but for the first wall on the ray it crosses (walls.crossed = k)
\* and for a first wall just left of pov (walls.near > 0) on every ray that
\* ends left of pov
wall_segments_on(walls, k, pov, end, length) ==
    [w \in 1..walls.count |->
        IF walls.crossed = k /\ w = 1 THEN SinglePoint(length \div 2)
        ELSE IF walls.near > 0 /\ w = 1 /\ end.x < pov.x THEN SinglePoint(0)
        ELSE NoIntersection]

\* the point of the ray from pov to end that find_intersection returns
ray_intersection(pov, end, walls, k, skip) ==
    LET length == ray_length(pov, end)
        found == find_intersection(Line(0, length),
                                   wall_segments_on(walls, k, pov, end, length), skip)
    IN  IF ~found.some THEN NoCoord
        ELSE IF found.coord = length THEN SomeCoord(end)
        ELSE IF walls.near > 0 THEN SomeCoord(near_point(pov, end, walls.near))
        ELSE SomeCoord(Coordinate((pov.x + end.x) \div 2, (pov.y + end.y) \div 2))

\* VTT::for_each_interesection with a closure that never exits early: what
\* the closure is handed, ray by ray
for_each_interesection(res, pov, skip, walls) ==
    LET ends == ray_ends(res)
    IN  [k \in DOMAIN ends |-> ray_intersection(pov, ends[k], walls, k, skip)]

\* VTT::calculate_direct_los: the ring of the polygon, or the panic of its
\* expect / assert
calculate_direct_los(res, pov, walls) ==
    LET found == for_each_interesection(res, pov, 0, walls)
    IN  IF found = <<>> \/ \E k \in DOMAIN found : ~found[k].some
        THEN [panic |-> TRUE, ring |-> <<>>]
        ELSE LET intersections == [k \in DOMAIN found |-> found[k].coord]
                 first == intersections[1]
                 last == intersections[Len(intersections)]
                 closed == IF distance_above_1e_9(first, last)
                           THEN Append(intersections, first)
                           ELSE intersections
             IN  [panic |-> Len(closed) <= 2 \/ closed[1] # closed[Len(closed)],
                  ring |-> closed]

\* maps with whole-number origins and sizes that have an inside
LosResolutions ==
    {r \in Resolutions :
        /\ r.pixels_per_grid = 1
        /\ r.map_origin.x < r.map_size.x /\ r.map_origin.y < r.map_size.y}

\* observers on every fifth of a square
LosPovs(res) ==
    {Coordinate(x, y) :
        x \in {c \in (res.map_origin.x + 1)..(res.map_size.x - 1) : c % STEP_SIZE = 0},
        y \in {c \in (res.map_origin.y + 1)..(res.map_size.y - 1) : c % (2 * STEP_SIZE) = 0}}

\* the largest distance of a wall just left of the observer, in units of
\* 1e-10 of a square
MaxNear == 12

\* up to MaxWalls walls; none crosses a ray (crossed = 0), or the first one
\* crosses the first ray or the ray to the far corner, or the first one runs
\* just left of the observer, at a distance fow_change accepts (not below
\* 1e-9)
LosWalls(res) ==
    ({[count |-> n, crossed |-> k, near |-> 0] :
        n \in 0..MaxWalls,
        k \in {0, 1, Len(top_edge(res)) + Len(right_edge(res))}} \
     {[count |-> 0, crossed |-> k, near |-> 0] :
        k \in {1, Len(top_edge(res)) + Len(right_edge(res))}})
    \cup {[count |-> n, crossed |-> 0, near |-> d] :
              n \in 1..MaxWalls, d \in Tolerance..MaxNear}

LosInit ==
    /\ \E res \in LosResolutions :
          los_arg \in {[called |-> TRUE, resolution |-> res, pov |-> pov, walls |-> walls] :
                          pov \in LosPovs(res), walls \in LosWalls(res)}
    /\ los_result = NotCalled
    /\ rect_arg = NotCalled /\ split_result = NotCalled
    /\ find_arg = NotCalled /\ find_result = NotCalled
    /\ FogIdle /\ VttIdle /\ ClassifyIdle /\ RectIdle /\ MergeIdle /\ AngleIdle

DirectLos ==
    /\ los_result = NotCalled
    /\ LET r == calculate_direct_los(los_arg.resolution, los_arg.pov, los_arg.walls)
       IN  los_result' = [called |-> TRUE, panic |-> r.panic, ring |-> r.ring]
    /\ UNCHANGED <<fogVars, rt, splitVars, findVars, vttVars, parVars, classifyVars, los_arg, rectangles, door_call, mergeVars, angleVars>>

LosNext == DirectLos

SpecLos == LosInit /\ [][LosNext]_vars

\* c lies on one of the four edges of the map
OnMapBoundary(c, res) ==
    \/ /\ c.x \in {res.map_origin.x, res.map_size.x}
       /\ res.map_origin.y <= c.y /\ c.y <= res.map_size.y
    \/ /\ c.y \in {res.map_origin.y, res.map_size.y}
       /\ res.map_origin.x <= c.x /\ c.x <= res.map_size.x

\* c1 and c2 lie on the same edge of the map
OnOneEdge(c1, c2, res) ==
    \/ c1.x = c2.x /\ c1.x \in {res.map_origin.x, res.map_size.x}
    \/ c1.y = c2.y /\ c1.y \in {res.map_origin.y, res.map_size.y}

\* the ring runs along the edges of the map through its four corners
IsMapBoundary(ring, res) ==
    /\ Len(ring) > 2 /\ ring[1] = ring[Len(ring)]
    /\ \A k \in DOMAIN ring : OnMapBoundary(ring[k], res)
    /\ \A k \in 1..(Len(ring) - 1) : OnOneEdge(ring[k], ring[k + 1], res)
    /\ \A x \in {res.map_origin.x, res.map_size.x}, y \in {res.map_origin.y, res.map_size.y} :
          \E k \in DOMAIN ring : ring[k] = Coordinate(x, y)

\* C14: for an observer strictly inside the map and walls that meet no ray,
\* calculate_direct_los gives a ring whose every vertex lies on the map
\* boundary and whose polygon is the map boundary rectangle.
C14_DirectLos ==
    (los_result.called /\ los_arg.walls.crossed = 0 /\ los_arg.walls.near = 0) =>
        /\ ~los_result.panic
        /\ IsMapBoundary(los_result.ring, los_arg.resolution)

-----------------------------------------------------------------------------
(* The FogOfWar with get_rectangles() called between the other calls *)

RectHideAll ==
    /\ LET r == hide_all(squares, rectangle_count)
       IN  squares' = r.squares /\ rectangle_count' = r.rectangle_count
    /\ rectangles' = NotCalled
    /\ UNCHANGED <<resolution, call, rt, splitVars, findVars, vttVars, parVars, classifyVars,
                   losVars, door_call, mergeVars, angleVars>>

RectShowAll ==
    /\ LET r == show_all(squares, rectangle_count)
       IN  squares' = r.squares /\ rectangle_count' = r.rectangle_count
    /\ rectangles' = NotCalled
    /\ UNCHANGED <<resolution, call, rt, splitVars, findVars, vttVars, parVars, classifyVars,
                   losVars, door_call, mergeVars, angleVars>>

RectUpdate ==
    /\ \E operation \in {"HIDE", "SHOW"}, polygon \in Polygons(resolution) :
          LET r == update(squares, rectangle_count, operation, polygon)
          IN  squares' = r.squares /\ rectangle_count' = r.rectangle_count
    /\ rectangles' = NotCalled
    /\ UNCHANGED <<resolution, call, rt, splitVars, findVars, vttVars, parVars, classifyVars,
                   losVars, door_call, mergeVars, angleVars>>

GetRectangles ==
    /\ rectangles' = [called |-> TRUE, result |-> get_rectangles(squares)]
    /\ UNCHANGED <<fogVars, rt, splitVars, findVars, vttVars, parVars, classifyVars, losVars,
                   door_call, mergeVars, angleVars>>

RectNext == RectHideAll \/ RectShowAll \/ RectUpdate \/ GetRectangles

SpecRect == ParInit /\ [][RectNext]_vars

\* the bounds of the leaves of a tree with visible = false
RECURSIVE HiddenLeafBounds(_)
HiddenLeafBounds(node) ==
    IF node.kind = "Leaf" THEN (IF node.visible THEN {} ELSE {node.bounds})
    ELSE HiddenLeafBounds(node.topleft) \cup HiddenLeafBounds(node.topright)
         \cup HiddenLeafBounds(node.bottomleft) \cup HiddenLeafBounds(node.bottomright)

\* the rectangles a cell is to contribute
CellRectangles(cell) ==
    IF cell.state = "Shown" THEN {}
    ELSE IF cell.state = "Hidden" THEN {cell.rect}
    ELSE HiddenLeafBounds(cell.node)

\* the number of rectangles the cells before cell i are to contribute
RECURSIVE RectanglesBefore(_, _)
RectanglesBefore(cells, i) ==
    IF i <= 1 THEN 0
    ELSE RectanglesBefore(cells, i - 1) + Cardinality(CellRectangles(cells[i - 1]))

\* C15: get_rectangles() returns, cell after cell in cell order, nothing for
\* a Shown cell, the cell's own bounds for a Hidden cell and the bounds of
\* the leaves with visible = false for a Partial cell, each once and nothing
\* else; the call changes no cell and not the counter.
C15_GetRectangles ==
    [][(rectangles'.called /\ rectangles' # rectangles) =>
          /\ squares' = squares /\ rectangle_count' = rectangle_count
          /\ Len(rectangles'.result) = RectanglesBefore(squares, Len(squares) + 1)
          /\ \A i \in DOMAIN squares :
                Range(SubSeq(rectangles'.result,
                             RectanglesBefore(squares, i) + 1,
                             RectanglesBefore(squares, i + 1)))
                    = CellRectangles(squares[i])]_vars

\* get_rectangles() was called on two cells, the first Partial with a tree of
\* hidden and visible leaves, the second Hidden
C15_Witness ==
    /\ rectangles.called /\ rectangles.result = get_rectangles(squares)
    /\ Len(squares) = 2
    /\ squares[1].state = "Partial" /\ squares[1].node.kind = "Internal"
    /\ HiddenLeafBounds(squares[1].node) # {}
    /\ \E child \in {squares[1].node.topleft, squares[1].node.topright,
                      squares[1].node.bottomleft, squares[1].node.bottomright} :
          child.kind = "Leaf" /\ child.visible
    /\ squares[2].state = "Hidden"

-----------------------------------------------------------------------------
(* vtt.rs: open_door and close_door on their own, on up to MaxDoors doors   *)
(* placed around the positions that are asked for                           *)

\* most doors of a map
MaxDoors == 2

\* where the doors are: one square off diagonally, a little over one square
\* off along x, at and far from the position (0, 0)
DoorPlaces ==
    {Coordinate(0, 0), Coordinate(CoordDen, CoordDen), Coordinate(CoordDen + 2, 0),
     Coordinate(3 * CoordDen, 3 * CoordDen)}

DoorAt(position, closed) ==
    Portal(position, <<position, Coordinate(position.x + 1, position.y)>>, closed)

DoorLists ==
    UNION {[1..n -> {DoorAt(position, closed) : position \in DoorPlaces, closed \in BOOLEAN}] :
              n \in 0..MaxDoors}

AskedPositions == {Coordinate(0, 0), Coordinate(CoordDen \div 2, CoordDen \div 2)}

DoorInit ==
    /\ portals \in DoorLists
    /\ line_of_sight = <<>> /\ objects_line_of_sight = None
    /\ fow_call = NotCalled
    /\ door_log = [i \in DOMAIN portals |-> "none"]
    /\ rect_arg = NotCalled /\ split_result = NotCalled
    /\ find_arg = NotCalled /\ find_result = NotCalled
    /\ FogIdle /\ ClassifyIdle /\ LosIdle /\ RectIdle /\ MergeIdle /\ AngleIdle

DoorCalled(op, position, found) ==
    [called |-> TRUE, op |-> op, position |-> position, before |-> portals,
     found |-> found]

DoorOpen ==
    \E position \in AskedPositions :
        LET r == open_door(portals, position)
        IN  /\ portals' = r.portals
            /\ door_call' = DoorCalled("open_door", position, r.found)
            /\ UNCHANGED <<fogVars, rt, splitVars, findVars, line_of_sight,
                           objects_line_of_sight, fow_call, door_log, parVars,
                           classifyVars, losVars, rectangles, mergeVars, angleVars>>

DoorClose ==
    \E position \in AskedPositions :
        LET r == close_door(portals, position)
        IN  /\ portals' = r.portals
            /\ door_call' = DoorCalled("close_door", position, r.found)
            /\ UNCHANGED <<fogVars, rt, splitVars, findVars, line_of_sight,
                           objects_line_of_sight, fow_call, door_log, parVars,
                           classifyVars, losVars, rectangles, mergeVars, angleVars>>

DoorNext == DoorOpen \/ DoorClose

SpecDoor == DoorInit /\ [][DoorNext]_vars

\* |dx| <= 1 and |dy| <= 1, in tenths
WithinOneSquare(c1, c2) ==
    Abs(c1.x - c2.x) <= CoordDen /\ Abs(c1.y - c2.y) <= CoordDen

\* the doors of ports within one square of position
DoorsNear(ports, position) ==
    {i \in DOMAIN ports : WithinOneSquare(ports[i].position, position)}

\* C16: open_door(position) returns true and sets closed = false on one door
\* exactly when some door is within one square of position; the door changed
\* is one of those nearest to position among the doors within one square;
\* when it returns false no door is changed.  close_door is the same with
\* closed = true.
C16_Doors ==
    door_call.called =>
        LET near == DoorsNear(door_call.before, door_call.position)
            target == (door_call.op = "close_door")
        IN  /\ door_call.found <=> near # {}
            /\ door_call.found =>
                  \E i \in near :
                      /\ \A j \in near :
                            distance_squared(door_call.before[i].position, door_call.position)
                               <= distance_squared(door_call.before[j].position,
                                                   door_call.position)
                      /\ portals = [door_call.before EXCEPT ![i].closed = target]
            /\ ~door_call.found => portals = door_call.before

-----------------------------------------------------------------------------
(* One cell in an update: what its closure does to the cell and what its    *)
(* calls add to the counter (SpecPar)                                       *)

\* what a sequence of counter calls adds to the counter
RECURSIVE NetChange(_)
NetChange(ops) ==
    IF ops = <<>> THEN 0
    ELSE (IF Head(ops).op = "fetch_add" THEN Head(ops).n ELSE 0 - Head(ops).n)
         + NetChange(Tail(ops))

\* the closure of cell i has just classified its cell
Classified(i) == workers[i].pc = "update" /\ workers'[i].pc # "update"

\* C17: a cell classified INSIDE is Hidden after update(HIDE, P) and Shown
\* after update(SHOW, P); its closure adds 1 to the counter when the cell was
\* Shown and becomes Hidden, subtracts 1 when it was Hidden and becomes
\* Shown, and leaves the counter alone when the cell was already in the
\* target state; a cell classified OUTSIDE keeps its state and its closure
\* makes no change to the counter.
C17_InsideOutside ==
    [][\A i \in DOMAIN workers :
          Classified(i) =>
              LET c == in_polygon(squares[i].rect, sequential.polygon)
                  target == IF sequential.operation = "HIDE" THEN "Hidden" ELSE "Shown"
                  change == NetChange(workers'[i].ops) % UsizeMod
              IN  /\ c = "INSIDE" =>
                        /\ squares'[i].state = target
                        /\ (squares[i].state = "Shown" /\ target = "Hidden")
                              => change = 1
                        /\ (squares[i].state = "Hidden" /\ target = "Shown")
                              => change = UsizeMod - 1
                        /\ squares[i].state = target => change = 0
                  /\ c = "OUTSIDE" => (squares'[i] = squares[i] /\ change = 0)]_vars

\* whether the pixel (x, y) is visible in a tree: the visible of the leaf
\* whose bounds hold the pixel
RECURSIVE visible_at(_, _, _)
visible_at(node, x, y) ==
    IF node.kind = "Leaf" THEN node.visible
    ELSE IF Contains(get_area(node.topleft), x, y) THEN visible_at(node.topleft, x, y)
    ELSE IF Contains(get_area(node.topright), x, y) THEN visible_at(node.topright, x, y)
    ELSE IF Contains(get_area(node.bottomleft), x, y) THEN visible_at(node.bottomleft, x, y)
    ELSE visible_at(node.bottomright, x, y)

\* whether the pixel (x, y) of a cell is visible
cell_visible_at(cell, x, y) ==
    IF cell.state = "Shown" THEN TRUE
    ELSE IF cell.state = "Hidden" THEN FALSE
    ELSE visible_at(cell.node, x, y)

\* C18: for a cell classified PARTIAL, update(op, P) merges the fresh tree
\* grown against P into the cell whatever the cell's state: every pixel of
\* the cell that the fresh tree puts inside P gets the target visibility of
\* op and every other pixel keeps the visibility it had, and a Hidden or
\* Shown cell that is not in the target state becomes Partial.
C18_PartialMerge ==
    [][\A i \in DOMAIN workers :
          (Classified(i) /\ in_polygon(squares[i].rect, sequential.polygon) = "PARTIAL") =>
              LET make_visible == (sequential.operation = "SHOW")
                  target == IF make_visible THEN "Shown" ELSE "Hidden"
                  fresh == create_tree(from_bounds(squares[i].rect, ~make_visible),
                                       make_visible, sequential.polygon)
              IN  /\ \A px \in Pixels(squares[i].rect) :
                        cell_visible_at(squares'[i], px[1], px[2])
                           = IF visible_at(fresh, px[1], px[2]) = make_visible
                             THEN make_visible
                             ELSE cell_visible_at(squares[i], px[1], px[2])
                  /\ (squares[i].state \in {"Hidden", "Shown"} /\ squares[i].state # target)
                        => squares'[i].state = "Partial"]_vars

-----------------------------------------------------------------------------
(* quadtreenode.rs: hide and show on their own, on two trees rooted at the  *)
(* same rectangle of MergeEdge x MergeEdge pixels.  A tree is a Leaf, or    *)
(* four children of which the first may itself have four leaf children.     *)

\* edge of the root rectangle in pixels
MergeEdge == 8

MergeRoot ==
    FoWRectangle_new(PixelCoordinate_new(0, 0),
                     PixelCoordinate_new(MergeEdge - 1, MergeEdge - 1))

\* a Leaf over bounds, or bounds split once into four leaves
ShallowTrees(bounds) ==
    {Leaf(bounds, v) : v \in BOOLEAN} \cup
    IF ~split(bounds).ok THEN {}
    ELSE {Internal(Leaf(split(bounds).children[1], v[1]),
                   Leaf(split(bounds).children[2], v[2]),
                   Leaf(split(bounds).children[3], v[3]),
                   Leaf(split(bounds).children[4], v[4])) :
              v \in [1..4 -> BOOLEAN]}

MergeTrees ==
    {Leaf(MergeRoot, v) : v \in BOOLEAN} \cup
    IF ~split(MergeRoot).ok THEN {}
    ELSE {Internal(first,
                   Leaf(split(MergeRoot).children[2], v[1]),
                   Leaf(split(MergeRoot).children[3], v[2]),
                   Leaf(split(MergeRoot).children[4], v[3])) :
              first \in ShallowTrees(split(MergeRoot).children[1]),
              v \in [1..3 -> BOOLEAN]}

MergeInit ==
    /\ merge_arg \in {[called |-> TRUE, op |-> op, self |-> self, other |-> other] :
                         op \in {"hide", "show"}, self \in MergeTrees, other \in MergeTrees}
    /\ merge_result = NotCalled
    /\ rect_arg = NotCalled /\ split_result = NotCalled
    /\ find_arg = NotCalled /\ find_result = NotCalled
    /\ FogIdle /\ VttIdle /\ ClassifyIdle /\ LosIdle /\ RectIdle /\ AngleIdle

MergeHide ==
    /\ merge_result = NotCalled /\ merge_arg.op = "hide"
    /\ merge_result' = [called |-> TRUE,
                        self |-> QuadtreeNode_hide(merge_arg.self, merge_arg.other)]
    /\ UNCHANGED <<fogVars, rt, splitVars, findVars, vttVars, parVars, classifyVars, losVars,
                   rectangles, door_call, merge_arg, angleVars>>

MergeShow ==
    /\ merge_result = NotCalled /\ merge_arg.op = "show"
    /\ merge_result' = [called |-> TRUE,
                        self |-> QuadtreeNode_show(merge_arg.self, merge_arg.other)]
    /\ UNCHANGED <<fogVars, rt, splitVars, findVars, vttVars, parVars, classifyVars, losVars,
                   rectangles, door_call, merge_arg, angleVars>>

MergeNext == MergeHide \/ MergeShow

SpecMerge == MergeInit /\ [][MergeNext]_vars

\* C19: after self.hide(other) a pixel is visible in self exactly when it
\* was visible in self before the call and is visible in other; other is
\* as it was.
C19_HideIsAnd ==
    [][(merge_result'.called /\ merge_arg.op = "hide") =>
          /\ \A px \in Pixels(MergeRoot) :
                visible_at(merge_result'.self, px[1], px[2])
                   <=> (visible_at(merge_arg.self, px[1], px[2])
                          /\ visible_at(merge_arg.other, px[1], px[2]))
          /\ merge_arg'.other = merge_arg.other]_vars

\* a visible Leaf was hidden by a tree of two levels with visible and hidden
\* leaves, and came out as a tree
C19_Witness ==
    /\ merge_result.called /\ merge_arg.op = "hide"
    /\ merge_arg.self = Leaf(MergeRoot, TRUE)
    /\ merge_arg.other.kind = "Internal" /\ merge_arg.other.topleft.kind = "Internal"
    /\ \E px \in Pixels(MergeRoot) : visible_at(merge_result.self, px[1], px[2])
    /\ \E px \in Pixels(MergeRoot) : ~visible_at(merge_result.self, px[1], px[2])

\* C20: after self.show(other) a pixel is visible in self exactly when it
\* was visible in self before the call or is visible in other; a pixel
\* hidden in both stays hidden, also when self was one hidden Leaf and other
\* is Internal.
C20_ShowIsOr ==
    [][(merge_result'.called /\ merge_arg.op = "show") =>
          \A px \in Pixels(MergeRoot) :
              visible_at(merge_result'.self, px[1], px[2])
                 <=> (visible_at(merge_arg.self, px[1], px[2])
                        \/ visible_at(merge_arg.other, px[1], px[2]))]_vars

-----------------------------------------------------------------------------
(* Coalescing (clean) as FowNode::partial applies it, seen at the closure   *)
(* of a cell of update                                                      *)

\* no Internal node of the tree has four Leaf children of one visibility
RECURSIVE Minimal(_)
Minimal(node) ==
    \/ node.kind = "Leaf"
    \/ /\ Minimal(node.topleft) /\ Minimal(node.topright)
       /\ Minimal(node.bottomleft) /\ Minimal(node.bottomright)
       /\ ~(/\ node.topleft.kind = "Leaf" /\ node.topright.kind = "Leaf"
            /\ node.bottomleft.kind = "Leaf" /\ node.bottomright.kind = "Leaf"
            /\ node.topleft.visible = node.topright.visible
            /\ node.topright.visible = node.bottomleft.visible
            /\ node.bottomleft.visible = node.bottomright.visible)

\* the tree FowNode::partial grows for a cell before it is cleaned
FreshTree(cell, operation, polygon) ==
    create_tree(from_bounds(cell.rect, operation # "SHOW"), operation = "SHOW", polygon)

\* the maps of one cell
CellResolutions == {r \in SmallResolutions : GridCols(r) * GridRows(r) = 1}

CellInit ==
    /\ resolution \in CellResolutions
    /\ squares = FogOfWar_new(resolution).squares
    /\ rectangle_count = FogOfWar_new(resolution).rectangle_count
    /\ call = [op |-> "new", prev |-> "none", had_partial |-> FALSE]
    /\ rt = RtNone
    /\ ParIdle /\ PureIdle

\* hide_all, show_all and update, closure by closure, on a map of one cell
SpecCell == CellInit /\ [][ParNext]_vars

\* the closure of cell i has just made its Hidden or Shown cell Partial
GrownInto(i) ==
    Classified(i) /\ squares[i].state # "Partial" /\ squares'[i].state = "Partial"

-----------------------------------------------------------------------------
(* quadtreenode.rs: create_tree on its own, on a Leaf over a square of up   *)
(* to MaxGrowEdge + 1 pixels and every rectangle with whole-pixel corners   *)
(* as the polygon                                                           *)

\* bottomright.x - topleft.x of the largest root
MaxGrowEdge == 6

GrowRoots ==
    {FoWRectangle_new(PixelCoordinate_new(0, 0), PixelCoordinate_new(e, e)) :
        e \in 1..MaxGrowEdge}

GrowPolygons(root) ==
    {[x0 |-> xs[1], y0 |-> ys[1], x1 |-> xs[2], y1 |-> ys[2]] :
        xs \in {e \in (0..root.bottomright.x + 1) \X (0..root.bottomright.x + 1) : e[1] < e[2]},
        ys \in {e \in (0..root.bottomright.y + 1) \X (0..root.bottomright.y + 1) : e[1] < e[2]}}

GrowArgs ==
    UNION {{[called |-> TRUE, op |-> "create_tree", self |-> from_bounds(root, ~make_visible),
             make_visible |-> make_visible, polygon |-> polygon] :
               make_visible \in BOOLEAN, polygon \in GrowPolygons(root)} :
           root \in GrowRoots}

GrowInit ==
    /\ merge_arg \in GrowArgs
    /\ merge_result = NotCalled
    /\ rect_arg = NotCalled /\ split_result = NotCalled
    /\ find_arg = NotCalled /\ find_result = NotCalled
    /\ FogIdle /\ VttIdle /\ ClassifyIdle /\ LosIdle /\ RectIdle /\ AngleIdle

CreateTree ==
    /\ merge_result = NotCalled /\ merge_arg.op = "create_tree"
    /\ merge_result' = [called |-> TRUE,
                        self |-> create_tree(merge_arg.self, merge_arg.make_visible,
                                             merge_arg.polygon)]
    /\ UNCHANGED <<fogVars, rt, splitVars, findVars, vttVars, parVars, classifyVars, losVars,
                   rectangles, door_call, merge_arg, angleVars>>

GrowNext == CreateTree

SpecGrow == GrowInit /\ [][GrowNext]_vars

\* the leaves of a tree
RECURSIVE Leaves(_)
Leaves(node) ==
    IF node.kind = "Leaf" THEN {node}
    ELSE Leaves(node.topleft) \cup Leaves(node.topright)
         \cup Leaves(node.bottomleft) \cup Leaves(node.bottomright)

\* C22: in the tree create_tree returns, a leaf classified INSIDE the polygon
\* has visible = make_visible, a leaf classified OUTSIDE has visible =
\* ~make_visible, and a leaf classified PARTIAL is one that split refuses
\* (every rectangle classified PARTIAL that can be split is an Internal
\* node); create_tree returns a tree in every case.
C22_Grown ==
    (merge_result.called /\ merge_arg.op = "create_tree") =>
        /\ merge_result.self.kind \in {"Leaf", "Internal"}
        /\ get_area(merge_result.self) = merge_arg.self.bounds
        /\ \A leaf \in Leaves(merge_result.self) :
              LET c == in_polygon(leaf.bounds, merge_arg.polygon)
              IN  /\ c = "INSIDE" => leaf.visible = merge_arg.make_visible
                  /\ c = "OUTSIDE" => leaf.visible = ~merge_arg.make_visible
                  /\ c = "PARTIAL" => ~split(leaf.bounds).ok

\* a tree with a leaf inside, a leaf outside and a leaf that the polygon
\* covers in part and that is too small to split
C22_Witness ==
    /\ merge_result.called /\ merge_arg.op = "create_tree"
    /\ merge_result.self.kind = "Internal"
    /\ \E l1, l2, l3 \in Leaves(merge_result.self) :
          /\ in_polygon(l1.bounds, merge_arg.polygon) = "INSIDE"
          /\ in_polygon(l2.bounds, merge_arg.polygon) = "OUTSIDE"
          /\ in_polygon(l3.bounds, merge_arg.polygon) = "PARTIAL"

-----------------------------------------------------------------------------
(* find_intersection: candidates at one distance key, collinear walls *)

\* the walls of a call that meet the ray
MeetingWalls(a) == {i \in DOMAIN a.wall_segments : a.wall_segments[i].kind # "None"}

\* the distance key of the candidate of wall i
WallKey(a, i) == as_i64(distance(WallPoint(a.wall_segments[i]), a.line.start))

\* the distance keys of all candidates, the ray's far endpoint included
CandidateKeys(a) ==
    {WallKey(a, i) : i \in MeetingWalls(a)}
        \cup {as_i64(distance(a.line.start, a.line.end))}

\* the points that belong to the candidates of one key
PointsOfKey(a, k) ==
    UNION {IF a.wall_segments[i].kind = "SinglePoint"
           THEN {a.wall_segments[i].intersection}
           ELSE {a.wall_segments[i].start, a.wall_segments[i].end} :
              i \in {j \in MeetingWalls(a) : WallKey(a, j) = k}}
        \cup (IF as_i64(distance(a.line.start, a.line.end)) = k THEN {a.line.end} ELSE {})

\* the n-th smallest (n = 1, 2, ...) of a set of keys
NthKey(keys, n) == CHOOSE k \in keys : Cardinality({j \in keys : j < k}) = n - 1

\* C23: candidates with one distance key count once.  With the candidates'
\* distinct keys in ascending order, skip = i returns a point of the
\* (i+1)-th key: skip = 0 the nearest candidate, skip = 1 the next farther
\* one, never a point of the same key again.
C23_Dedup ==
    find_result.called =>
        (find_arg.skip < Cardinality(CandidateKeys(find_arg)) =>
            /\ find_result.result.some
            /\ find_result.result.coord
                  \in PointsOfKey(find_arg, NthKey(CandidateKeys(find_arg), find_arg.skip + 1)))

\* C24: for a wall that overlaps the ray collinearly, alone on the ray, the
\* nearest candidate (skip = 0) is the end of the overlap nearer to the
\* ray's start, whether that is the overlap's start or its end.
C24_CollinearNearer ==
    (/\ find_result.called /\ find_arg.skip = 0
     /\ Len(find_arg.wall_segments) = 1
     /\ find_arg.wall_segments[1].kind = "Collinear") =>
        find_result.result
            = SomeCoord(Min(find_arg.wall_segments[1].start, find_arg.wall_segments[1].end))

-----------------------------------------------------------------------------
(* calculate_direct_los: its expect and assert checks *)

\* C25: for every observer that fow_change accepts and every wall list,
\* calculate_direct_los returns without a failed expect or assert: every
\* search with skip = 0 returns a point, the ring has more than 2 points and
\* its first and last points are equal.
C25_NoFatalError ==
    los_result.called =>
        /\ ~los_result.panic
        /\ Len(los_result.ring) > 2
        /\ los_result.ring[1] = los_result.ring[Len(los_result.ring)]

-----------------------------------------------------------------------------
(* for_each_interesection: where the rays end, seen through a call of       *)
(* calculate_direct_los without walls, whose ring is the list of ray ends   *)

\* how far along the boundary of the map, clockwise from the corner at
\* map_origin, a point of the boundary lies
Clockwise(c, res) ==
    LET w == res.map_size.x - res.map_origin.x
        h == res.map_size.y - res.map_origin.y
    IN  IF c.y = res.map_origin.y THEN c.x - res.map_origin.x
        ELSE IF c.x = res.map_size.x THEN w + (c.y - res.map_origin.y)
        ELSE IF c.y = res.map_size.y THEN w + h + (res.map_size.x - c.x)
        ELSE w + h + w + (res.map_size.y - c.y)

\* the sample points of the boundary: the corners and the points of the
\* edges at multiples of STEP_SIZE
BoundarySamples(res) ==
    {c \in {Coordinate(x, y) : x \in res.map_origin.x..res.map_size.x,
                               y \in res.map_origin.y..res.map_size.y} :
        /\ OnMapBoundary(c, res)
        /\ c.x % STEP_SIZE = 0 \/ c.x \in {res.map_origin.x, res.map_size.x}
        /\ c.y % STEP_SIZE = 0 \/ c.y \in {res.map_origin.y, res.map_size.y}}

\* C26: the rays end on the four edges of the map, at the sample points of
\* the boundary; they run clockwise from the corner at map_origin along the
\* top, right, bottom and left edge, visit every sample point once, and the
\* starting corner first and last.
C26_Sampling ==
    (los_result.called /\ los_arg.walls.count = 0 /\ ~los_result.panic) =>
        LET ring == los_result.ring
            res == los_arg.resolution
        IN  /\ \A k \in DOMAIN ring : ring[k] \in BoundarySamples(res)
            /\ \A c \in BoundarySamples(res) : \E k \in DOMAIN ring : ring[k] = c
            /\ \A k \in 1..(Len(ring) - 2) :
                  Clockwise(ring[k], res) < Clockwise(ring[k + 1], res)
            /\ ring[1] = res.map_origin
            /\ ring[Len(ring)] = res.map_origin

-----------------------------------------------------------------------------
(* Vector::smallest_angle on its own                                        *)

\* largest absolute value of a component of a vector
MaxComponent == 2

\* most candidates handed to smallest_angle
MaxOthers == 2

\* a Vector: smallest_angle reads x and y only
Vector(x, y) == [x |-> x, y |-> y]

\* the vectors of length above zero with whole components
Vectors ==
    {Vector(x, y) : x \in (0 - MaxComponent)..MaxComponent,
                    y \in (0 - MaxComponent)..MaxComponent} \ {Vector(0, 0)}

\* a product of two f64 is the zero with the minus sign: one factor is zero
\* and the other negative (the vectors hold no negative zero themselves)
negative_zero(a, b) == (a = 0 /\ b < 0) \/ (a < 0 /\ b = 0)

\* the arguments of atan2: x is the dot product and y the cross product,
\* whose zero carries a sign: 0 - 0 is the negative zero only for
\* (-0.0) - (+0.0)
new_angle_swapped(self, other) ==
    [x |-> (self.x * other.y) - (self.y * other.x),
     y |-> (self.x * other.x) + (self.y * other.y),
     minus |-> FALSE]
new_angle(self, other) ==
    [x |-> (self.x * other.x) + (self.y * other.y),
     y |-> (self.x * other.y) - (self.y * other.x),
     minus |-> /\ negative_zero(self.x, other.y)
               /\ (self.y * other.x = 0 /\ ~negative_zero(self.y, other.x))]

\* where atan2(y, x) * RAD2DEG + 180 lies: 0 for 0 (atan2 gives -pi for the
\* negative zero left of the origin), 1 inside (0, 180), 2 for 180, 3 inside
\* (180, 360), 4 for 360 (atan2 gives +pi for the positive zero)
half_turn(a) ==
    IF a.y < 0 THEN 1
    ELSE IF a.y > 0 THEN 3
    ELSE IF a.x > 0 THEN 2
    ELSE IF a.minus THEN 0 ELSE 4

\* new_angle < 1e-9
angle_below_1e_9(a) == half_turn(a) = 0

\* a > b for two angles
angle_greater(a, b) ==
    \/ half_turn(a) > half_turn(b)
    \/ /\ half_turn(a) = half_turn(b)
       /\ half_turn(a) \in {1, 3}
       /\ (b.x * a.y) - (b.y * a.x) > 0

\* the loop of smallest_angle from candidate i on; smallest and zero_angle
\* hold the index of a candidate, or 0 for None
RECURSIVE smallest_angle_from(_, _, _, _, _)
smallest_angle_from(self, others, i, smallest, zero_angle) ==
    IF i > Len(others)
    THEN [smallest |-> smallest, zero_angle |-> zero_angle]
    ELSE IF angle_below_1e_9(new_angle(self, others[i]))
         THEN smallest_angle_from(self, others, i + 1, smallest, i)
         ELSE IF smallest = 0
                 \/ angle_greater(new_angle(self, others[smallest]),
                                  new_angle(self, others[i]))
              THEN smallest_angle_from(self, others, i + 1, i, zero_angle)
              ELSE smallest_angle_from(self, others, i + 1, smallest, zero_angle)

smallest_angle(self, others) ==
    LET found == smallest_angle_from(self, others, 1, 0, 0)
    IN  IF found.smallest # 0
        THEN [panic |-> FALSE, vector |-> others[found.smallest]]
        ELSE IF found.zero_angle # 0
             THEN [panic |-> FALSE, vector |-> others[found.zero_angle]]
             ELSE [panic |-> TRUE, vector |-> Vector(0, 0)]

AngleArgs ==
    {[called |-> TRUE, self |-> self, others |-> others] :
        self \in Vectors,
        others \in UNION {[1..n -> Vectors] : n \in 1..MaxOthers}}

AngleInit ==
    /\ angle_arg \in AngleArgs
    /\ angle_result = NotCalled
    /\ rect_arg = NotCalled /\ split_result = NotCalled
    /\ find_arg = NotCalled /\ find_result = NotCalled
    /\ FogIdle /\ VttIdle /\ ClassifyIdle /\ LosIdle /\ RectIdle /\ MergeIdle

SmallestAngle ==
    /\ angle_result = NotCalled
    /\ angle_result' =
          [called |-> TRUE,
           result |-> smallest_angle(angle_arg.self, angle_arg.others)]
    /\ UNCHANGED <<fogVars, rt, splitVars, findVars, vttVars, parVars, classifyVars, losVars, rectangles, door_call, mergeVars, angle_arg>>

AngleNext == SmallestAngle

SpecAngle == AngleInit /\ [][AngleNext]_vars

\* v points the way the reverse of self points: at angle zero
Backwards(self, v) ==
    /\ (self.x * v.y) - (self.y * v.x) = 0
    /\ (self.x * v.x) + (self.y * v.y) < 0

\* which side of the line through self v leaves to, turning clockwise (the
\* y axis points down) from the reverse of self: 1 before half a turn, 2 at
\* half a turn (v points the way self points), 3 after it
Side(self, v) ==
    LET turn == ((0 - self.x) * v.y) - ((0 - self.y) * v.x)
    IN  IF turn > 0 THEN 1 ELSE IF turn = 0 THEN 2 ELSE 3

\* turning clockwise from the reverse of self, a is met before b (neither
\* points backwards)
TurnsBefore(self, a, b) ==
    \/ Side(self, a) < Side(self, b)
    \/ /\ Side(self, a) = Side(self, b)
       /\ Side(self, a) # 2
       /\ (a.x * b.y) - (a.y * b.x) > 0

\* C27: smallest_angle returns one of the candidates; when a candidate does
\* not point backwards along self, the one returned does not either and no
\* such candidate is met before it turning clockwise from the reverse of
\* self; a candidate pointing backwards (angle zero) is returned only when
\* all candidates do.
C27_SmallestTurn ==
    angle_result.called =>
        LET self == angle_arg.self
            others == angle_arg.others
            returned == angle_result.result.vector
            forward == {i \in DOMAIN others : ~Backwards(self, others[i])}
        IN  /\ ~angle_result.result.panic
            /\ \E i \in DOMAIN others : others[i] = returned
            /\ forward # {} =>
                  /\ ~Backwards(self, returned)
                  /\ \A i \in forward : ~TurnsBefore(self, others[i], returned)
            /\ Backwards(self, returned) => forward = {}

\* a candidate pointing backwards comes first, on either side of the
\* signed zero, and another candidate is returned; and a call with a lone
\* candidate pointing backwards returns it
C27_Witness ==
    /\ angle_result.called
    /\ Len(angle_arg.others) = 2
    /\ Backwards(angle_arg.self, angle_arg.others[1])
    /\ angle_below_1e_9(new_angle(angle_arg.self, angle_arg.others[1]))
    /\ ~Backwards(angle_arg.self, angle_arg.others[2])
    /\ angle_result.result.vector = angle_arg.others[2]

-----------------------------------------------------------------------------
(* QuadtreeNode::to_internal on its own                                     *)

\* the nodes to_internal is called on: a Leaf of either visibility over a
\* rectangle of every width and height, and the trees of SpecMerge
InternalArgs ==
    {[called |-> TRUE, op |-> "to_internal", self |-> self] :
        self \in MergeTrees \cup
                 {Leaf(FoWRectangle_new(PixelCoordinate_new(0, 0), PixelCoordinate_new(w, h)), v) :
                     w \in 1..MaxGrowEdge, h \in 1..MaxGrowEdge, v \in BOOLEAN}}

InternalInit ==
    /\ merge_arg \in InternalArgs
    /\ merge_result = NotCalled
    /\ rect_arg = NotCalled /\ split_result = NotCalled
    /\ find_arg = NotCalled /\ find_result = NotCalled
    /\ FogIdle /\ VttIdle /\ ClassifyIdle /\ LosIdle /\ RectIdle /\ AngleIdle

ToInternal ==
    /\ merge_result = NotCalled /\ merge_arg.op = "to_internal"
    /\ merge_result' = [called |-> TRUE,
                        ok |-> to_internal(merge_arg.self).ok,
                        self |-> to_internal(merge_arg.self).node]
    /\ UNCHANGED <<fogVars, rt, splitVars, findVars, vttVars, parVars, classifyVars, losVars,
                   rectangles, door_call, merge_arg, angleVars>>

InternalNext == ToInternal

SpecInternal == InternalInit /\ [][InternalNext]_vars

\* C28: to_internal on a Leaf that can be split gives four Leaf children
\* with the visible flag of the Leaf, so every pixel is as visible after the
\* call as before it; to_internal on an Internal node leaves it as it is.
C28_SplitKeepsVisibility ==
    (merge_result.called /\ merge_arg.op = "to_internal") =>
        LET before == merge_arg.self
            after == merge_result.self
        IN  /\ before.kind = "Internal" => (merge_result.ok /\ after = before)
            /\ (before.kind = "Leaf" /\ merge_result.ok) =>
                  /\ after.kind = "Internal"
                  /\ \A child \in {after.topleft, after.topright,
                                   after.bottomleft, after.bottomright} :
                        child.kind = "Leaf" /\ child.visible = before.visible
                  /\ \A px \in Pixels(before.bounds) :
                        visible_at(after, px[1], px[2]) = before.visible

-----------------------------------------------------------------------------
(* The counter as an unsigned integer                                       *)

\* the step is a call of hide_all or show_all
AllCalled == workers = <<>> /\ workers' = <<>>

\* the step is a call of the closure of cell i on the counter
CounterCalled(i) == workers[i].pc = "counter" /\ workers'[i] # workers[i]

\* C29: no step takes more from the counter than it holds: hide_all and
\* show_all, which take 1 for every cell they change, one cell after the
\* other; every fetch_sub of a closure of update; and the count - 1 of
\* FowNode::partial on a Hidden cell, whose grown tree has a hidden leaf.
C29_NoWrap ==
    [][/\ AllCalled =>
             Cardinality({i \in DOMAIN squares : squares'[i] # squares[i]}) <= rectangle_count
       /\ \A i \in DOMAIN workers :
             /\ (CounterCalled(i) /\ Head(workers[i].ops).op = "fetch_sub") =>
                   Head(workers[i].ops).n <= rectangle_count
             /\ (GrownInto(i) /\ squares[i].state = "Hidden") =>
                   hidden_children(FreshTree(squares[i], sequential.operation,
                                             sequential.polygon)) >= 1]_vars

-----------------------------------------------------------------------------
(* update never undoes what it does not ask for                             *)

\* C30: the closure of update(SHOW, P) leaves every visible pixel of its
\* cell visible and the closure of update(HIDE, P) leaves every hidden pixel
\* of its cell hidden, whatever the state of the cell; no step of update
\* changes another cell.
C30_Monotone ==
    [][\A i \in DOMAIN workers :
          Classified(i) =>
              /\ \A px \in Pixels(squares[i].rect) :
                    IF sequential.operation = "SHOW"
                    THEN cell_visible_at(squares[i], px[1], px[2])
                            => cell_visible_at(squares'[i], px[1], px[2])
                    ELSE cell_visible_at(squares'[i], px[1], px[2])
                            => cell_visible_at(squares[i], px[1], px[2])
              /\ \A j \in DOMAIN squares : j # i => squares'[j] = squares[j]]_vars

\* update(SHOW, P) has returned on a map that had a Partial cell before it:
\* it made a Hidden cell Partial, and a cell with visible pixels that it
\* classified PARTIAL or INSIDE has them still
C30_Witness ==
    /\ AllDone
    /\ sequential.operation = "SHOW"
    /\ \E i \in DOMAIN squares :
          /\ sequential.before[i].state = "Hidden"
          /\ squares[i].state = "Partial"
    /\ \E j \in DOMAIN squares :
          /\ sequential.before[j].state = "Partial"
          /\ in_polygon(squares[j].rect, sequential.polygon) # "OUTSIDE"

=============================================================================
